---- MODULE Spec2Model ----
(***************************************************************************)
(* A model of server.js: the session manager, the per-session playlist     *)
(* store, the add / cancel / progress protocol and the download tokens.    *)
(* Every request handler is cut at its awaits: one action per stretch of   *)
(* code that Node runs without yielding to another handler.  Time is       *)
(* Date.now() in seconds.                                                  *)
(***************************************************************************)
EXTENDS Integers, Sequences, FiniteSets, TLC

\* ------------------------------------------------------------------ bounds
MaxReq == 4          \* request slots (each request is handled once)
MaxAddReq == 2       \* requests of the add/cancel/progress specification
MaxTime == 900      \* the clock stops here

\* ------------------------------------------------------- program constants
CANCELED_TOKEN_TTL == 900
ADD_PROGRESS_ACTIVE_TTL == 300
ADD_PROGRESS_DONE_TTL == 10
DOWNLOAD_TOKEN_TTL == 1800
capSeconds == 4800
MaxAttempts == 1000
SESSION_COOKIE_MAX_AGE == 21600

\* ------------------------------------------------------------- input sets
Reqs == 1..MaxReq
Sessions == {"sA", "sB"}
Tokens == {"t1", "t2"}
NoToken == "none"
Videos == {"v1", "v2"}
NoFile == <<>>
\* metadata duration of a video, as yt-dlp -J reports it
DurationOf(v) == IF v = "v1" THEN 180 ELSE 3000

\* -------------------------------------------------------------- variables
VARIABLES
  now,                      \* Date.now()
  sessionContexts,          \* sid -> context id (Map)
  sessionCreationPromises,  \* sid -> creation id (Map)
  creations,                \* creation id -> [sid, state] : the async creation closures
  destroys,                 \* context id -> [stage, unlinking] : destroySessionContext calls at an await
  ctxs,                     \* context id -> context object (the heap of contexts)
  req,                      \* request slot -> handler state
  sent,                     \* the responses sent by the latest step
  files,                    \* paths that exist on disk
  unreadable,               \* paths whose stat/read fails with an error other than ENOENT
  dirs,                     \* identifiers whose track, scratch and downloads directories exist
  canceledAddTokens,        \* token -> expiry (Map)
  addProgressMap,           \* token -> [value, done, expiresAt] (Map)
  downloadTokenIndex,       \* download token -> [sessionId, path, expiresAt] (Map)
  nextId,                   \* how many nanoid() values have been drawn
  probe,                    \* a getVideoMetaSmart call: [results, settled, done, out]
  pick,                     \* two chooseBestFormat calls on one list: [formats, calls, out, again]
  bins                      \* what start-up found of the external tools: [ff, yd]

sessVars == <<sessionContexts, sessionCreationPromises, creations, destroys>>
fsVars == <<files, unreadable, dirs>>
addVars == <<canceledAddTokens, addProgressMap>>
pureVars == <<probe, pick, bins>>
vars == <<now, sessionContexts, sessionCreationPromises, creations, destroys, ctxs, req,
          sent, files, unreadable, dirs, canceledAddTokens, addProgressMap,
          downloadTokenIndex, nextId, probe, pick, bins>>

\* ------------------------------------------------------------ Map helpers
EmptyMap == [k \in {} |-> 0]
MapSet(m, k, v) == [x \in DOMAIN m \cup {k} |-> IF x = k THEN v ELSE m[x]]
MapDel(m, k) == [x \in DOMAIN m \ {k} |-> m[x]]
Max(a, b) == IF a >= b THEN a ELSE b
Min(a, b) == IF a <= b THEN a ELSE b
Range(s) == {s[i] : i \in DOMAIN s}

\* ---------------------------------------------------------- PlaylistStore
RECURSIVE totalSeconds(_)
totalSeconds(items) ==
  IF items = <<>> THEN 0 ELSE Head(items).duration + totalSeconds(Tail(items))

ItemIds(items) == {items[i].id : i \in DOMAIN items}

\* an add that refuses what would not fit the capacity
PlaylistAdd_Capped(items, item) ==
  IF totalSeconds(items) + item.duration > capSeconds THEN items
  ELSE Append(items, item)

PlaylistAdd(items, item) == Append(items, item)

\* index of the first item with this id, 0 when there is none (findIndex)
FindIndex(items, id) ==
  IF \E i \in DOMAIN items : items[i].id = id
  THEN CHOOSE i \in DOMAIN items :
         items[i].id = id /\ \A j \in 1..(i - 1) : items[j].id # id
  ELSE 0

\* remove() that splices at the head whenever the id is found
PlaylistRemove_Head(items, id) ==
  IF FindIndex(items, id) = 0 THEN items ELSE Tail(items)

PlaylistRemove(items, id) ==
  LET idx == FindIndex(items, id) IN
  IF idx = 0 THEN items
  ELSE [i \in 1..(Len(items) - 1) |-> IF i < idx THEN items[i] ELSE items[i + 1]]

\* clear() that hands the items back without emptying the list
PlaylistClear_Keep(items) == items

PlaylistClear(items) == <<>>

\* reorder() without the duplicate check
ReorderAccepts_NoDupCheck(items, orderIds) ==
  /\ Len(orderIds) = Len(items)
  /\ \A i \in DOMAIN orderIds : orderIds[i] \in ItemIds(items)

\* the checks of reorder(), in the order the code makes them
ReorderAccepts(items, orderIds) ==
  /\ Len(orderIds) = Len(items)
  /\ Cardinality(Range(orderIds)) = Len(orderIds)
  /\ \A i \in DOMAIN orderIds : orderIds[i] \in ItemIds(items)

PlaylistReorder(items, orderIds) ==
  IF ReorderAccepts(items, orderIds)
  THEN [i \in 1..Len(orderIds) |->
          items[CHOOSE j \in DOMAIN items : items[j].id = orderIds[i]]]
  ELSE items

\* ------------------------------------------------- canceled-token set
purgeCanceledTokens(m, t) == [k \in {x \in DOMAIN m : m[x] > t} |-> m[k]]

markAddCanceled(m, token, t) ==
  MapSet(purgeCanceledTokens(m, t), token, t + CANCELED_TOKEN_TTL)

isAddCanceled(m, token, t) ==
  token # NoToken /\ token \in DOMAIN purgeCanceledTokens(m, t)

clearCanceledToken(m, token) == MapDel(m, token)

\* canceledAddTokens after `client_token && isAddCanceled(client_token)`
AfterCancelCheck(m, token, t) ==
  IF token = NoToken THEN m ELSE purgeCanceledTokens(m, t)

\* ------------------------------------------------------ progress table
\* a purge that keeps an entry at the very instant of its expiry
purgeAddProgress_Late(m, t) == [k \in {x \in DOMAIN m : m[x].expiresAt >= t} |-> m[k]]

purgeAddProgress(m, t) == [k \in {x \in DOMAIN m : m[x].expiresAt > t} |-> m[k]]

\* setAddProgress without the monotonic rule: the new reading always replaces the old
setAddProgress_NoMax(m, token, value, done, t) ==
  IF token = NoToken THEN m
  ELSE MapSet(purgeAddProgress(m, t), token,
              [value |-> Max(0, Min(100, value)), done |-> done,
               expiresAt |-> t + (IF done THEN ADD_PROGRESS_DONE_TTL
                                          ELSE ADD_PROGRESS_ACTIVE_TTL)])

setAddProgress(m, token, value, done, t) ==
  IF token = NoToken THEN m
  ELSE
    LET purged == purgeAddProgress(m, t)
        clamped == Max(0, Min(100, value))
        nextValue == IF ~done /\ token \in DOMAIN purged
                     THEN Max(purged[token].value, clamped)
                     ELSE clamped
    IN MapSet(purged, token,
              [value |-> nextValue, done |-> done,
               expiresAt |-> t + (IF done THEN ADD_PROGRESS_DONE_TTL
                                          ELSE ADD_PROGRESS_ACTIVE_TTL)])

markAddProgressDone(m, token, value, t) == setAddProgress(m, token, value, TRUE, t)

\* -------------------------------------------------------------- requests
\* slot: the request's number; valid: its body passes the route's check;
\* cancelSeen and fed are bookkeeping for the properties (fed: the last
\* percentage its subprocess printed; cancelSeen: a cancel for its token
\* arrived between its receipt and the end of its job); progress and done
\* are the body of the answer to a progress poll; cookie and hint are the
\* session cookie and the X-CD-Session header the request came with;
\* setCookies and xSession are the identifiers in the Set-Cookie headers (in
\* order; a browser keeps the last) and in the X-CD-Session header of the
\* response, which sessionCookieMiddleware sets before the handler runs;
\* uncaught: an exception left the handler; total: the totalSeconds an add
\* reports; marked: the last chunk its subprocess printed named a
\* post-processing phase
NoProgress == -1

IdleReq ==
  [slot |-> 0, route |-> "none", pc |-> "idle", sid |-> "none", ctx |-> 0,
   awaited |-> 0, token |-> NoToken, video |-> "none", file |-> NoFile,
   arg |-> <<>>, unlinking |-> {}, spawned |-> FALSE, status |-> 0,
   canceled |-> FALSE, item |-> 0, valid |-> TRUE, head |-> FALSE, fed |-> -1,
   cancelSeen |-> FALSE, progress |-> NoProgress, done |-> FALSE,
   cookie |-> "none", hint |-> "none", setCookies |-> <<>>, xSession |-> "none",
   uncaught |-> FALSE, total |-> 0, marked |-> FALSE, polledDone |-> FALSE,
   attempt |-> 0, overwrote |-> FALSE]

NewReq(route, s, token, video, arg) ==
  [IdleReq EXCEPT !.route = route, !.sid = s, !.token = token,
                  !.video = video, !.arg = arg,
                  !.setCookies = <<s>>, !.xSession = s]

\* what is kept of a request once it has answered
Answered(rec) ==
  [IdleReq EXCEPT !.slot = rec.slot, !.pc = "done", !.route = rec.route,
                  !.status = rec.status, !.canceled = rec.canceled,
                  !.spawned = rec.spawned]

Settle(rec) == IF rec.pc = "done" THEN Answered(rec) ELSE rec

\* no call of getVideoMetaSmart or chooseBestFormat is followed
NoProbe == [results |-> <<>>, settled |-> <<>>, done |-> FALSE, out |-> 0]
NoPick == [formats |-> <<>>, calls |-> 0, out |-> <<>>, again |-> <<>>]

\* requests are received in slot order
CanReceive(r) == req[r].pc = "idle" /\ (IF r = 1 THEN TRUE ELSE req[r - 1].pc # "idle")

\* the server after start-up
Quiet ==
  /\ now = 0
  /\ sessionContexts = EmptyMap
  /\ sessionCreationPromises = EmptyMap
  /\ creations = EmptyMap
  /\ destroys = EmptyMap
  /\ ctxs = EmptyMap
  /\ req = [r \in Reqs |-> IdleReq]
  /\ sent = {}
  /\ files = {}
  /\ unreadable = {}
  /\ dirs = {}
  /\ canceledAddTokens = EmptyMap
  /\ addProgressMap = EmptyMap
  /\ downloadTokenIndex = EmptyMap
  /\ nextId = 0

\* FF.bin and YD.bin when ffmpeg and yt-dlp were both found
Installed == [ff |-> TRUE, yd |-> TRUE]

Init ==
  /\ Quiet
  /\ probe = NoProbe
  /\ pick = NoPick
  /\ bins = Installed

\* ------------------------------------------------------- session manager
\* the object createSessionContext builds
NewContext(s) ==
  [id |-> s, playlist |-> <<>>, downloadTokens |-> {}, lastAccess |-> now]

\* the track directory of a session is tmp/session-<sha256(id)>/tracks, and
\* yt-dlp names the file after the video: one path per identifier and video
TrackPath(c, v) == <<ctxs[c].id, v>>

\* ------------------------------------------------------ handler bodies
\* What a handler does, once getSessionContext has returned context c whose
\* playlist holds items, up to its next await: the request's new state (rq)
\* and the playlist it leaves (items).  rec is the request as received.

\* /api/add up to the await of getVideoMetaSmart
BodyAdd(rec, c, items) ==
  [rq |-> [rec EXCEPT !.ctx = c, !.pc = "meta"], items |-> items]

\* /api/list
BodyList(rec, c, items) ==
  [rq |-> [rec EXCEPT !.ctx = c, !.pc = "done", !.status = 200], items |-> items]

\* /api/clear up to the await of the unlinks
BodyClear(rec, c, items) ==
  [rq |-> [rec EXCEPT !.ctx = c, !.pc = "unlink",
                      !.unlinking = {items[i].filepath : i \in DOMAIN items}],
   items |-> PlaylistClear(items)]

\* /api/remove/:id up to the await of the unlink
BodyRemove(rec, c, items) ==
  LET idx == FindIndex(items, rec.arg[1]) IN
  IF idx = 0
  THEN [rq |-> [rec EXCEPT !.ctx = c, !.pc = "done", !.status = 404],
        items |-> PlaylistRemove(items, rec.arg[1])]
  ELSE [rq |-> [rec EXCEPT !.ctx = c, !.pc = "unlink",
                           !.unlinking = {items[idx].filepath}],
        items |-> PlaylistRemove(items, rec.arg[1])]

\* /api/reorder
BodyReorder(rec, c, items) ==
  [rq |-> [rec EXCEPT !.ctx = c, !.pc = "done",
                      !.status = IF ReorderAccepts(items, rec.arg) THEN 200 ELSE 400],
   items |-> PlaylistReorder(items, rec.arg)]

\* /api/convert up to the await of getVideoMetaSmart
BodyConvert(rec, c, items) ==
  [rq |-> [rec EXCEPT !.ctx = c, !.pc = "job"], items |-> items]

Body(rec, c, items) ==
  CASE rec.route = "add" -> BodyAdd(rec, c, items)
    [] rec.route = "list" -> BodyList(rec, c, items)
    [] rec.route = "clear" -> BodyClear(rec, c, items)
    [] rec.route = "remove" -> BodyRemove(rec, c, items)
    [] rec.route = "reorder" -> BodyReorder(rec, c, items)
    [] rec.route = "convert" -> BodyConvert(rec, c, items)

\* --------------------------------------------------- getSessionContext
\* one context for everybody, whatever the identifier
ContextOf_Shared(s) ==
  IF ctxs = EmptyMap THEN 0 ELSE CHOOSE c \in DOMAIN ctxs : \A d \in DOMAIN ctxs : c <= d

\* sessionContexts.get(sid): the live context of the identifier, 0 for none
ContextOf(s) ==
  IF s \in DOMAIN sessionContexts THEN sessionContexts[s] ELSE 0

\* the creation in flight is never looked up
PendingFor_NoLookup(s) == 0

\* sessionCreationPromises.get(sid): the recorded creation, 0 for none
PendingFor(s) ==
  IF s \in DOMAIN sessionCreationPromises THEN sessionCreationPromises[s] ELSE 0

\* A request arrives and its handler runs up to its first real await.  With a
\* live context the handler body follows at once.  Otherwise the request joins
\* the creation recorded for its identifier (and fails at once with it when
\* that creation has rejected), or starts one.
Receive(r, rec0) ==
  LET rec == [rec0 EXCEPT !.slot = r] IN
  /\ CanReceive(r)
  /\ UNCHANGED <<pureVars, now, fsVars, addVars, downloadTokenIndex, nextId>>
  /\ IF ContextOf(rec.sid) # 0
     THEN LET c == ContextOf(rec.sid)
              h == Body(rec, c, ctxs[c].playlist)
          IN /\ req' = [req EXCEPT ![r] = Settle(h.rq)]
             /\ sent' = IF h.rq.pc = "done" THEN {h.rq} ELSE {}
             /\ ctxs' = [ctxs EXCEPT ![c].lastAccess = now, ![c].playlist = h.items]
             /\ UNCHANGED sessVars
     ELSE IF PendingFor(rec.sid) # 0
     THEN LET p == PendingFor(rec.sid)
              failed == [rec EXCEPT !.pc = "done", !.status = 500, !.awaited = p]
          IN
          IF creations[p].state = "rejected"
          THEN /\ req' = [req EXCEPT ![r] = Answered(failed)]
               /\ sent' = {failed}
               /\ UNCHANGED <<sessVars, ctxs>>
          ELSE /\ req' = [req EXCEPT ![r] = [rec EXCEPT !.pc = "awaitCtx", !.awaited = p]]
               /\ sent' = {}
               /\ UNCHANGED <<sessVars, ctxs>>
     ELSE LET p == Cardinality(DOMAIN creations) + 1 IN
          /\ creations' = MapSet(creations, p, [sid |-> rec.sid, state |-> "pending"])
          /\ sessionCreationPromises' = MapSet(sessionCreationPromises, rec.sid, p)
          /\ req' = [req EXCEPT ![r] = [rec EXCEPT !.pc = "awaitCtx", !.awaited = p]]
          /\ sent' = {}
          /\ UNCHANGED <<sessionContexts, destroys, ctxs>>

Waiting(p) == {r \in Reqs : req[r].pc = "awaitCtx" /\ req[r].awaited = p}

\* createSessionContext's mkdirs succeed: the closure stores the context and
\* drops its map entry, and every handler awaiting it runs its body before any
\* other event is handled (the playlist of a new context is empty, and no
\* handler body adds to an empty playlist)
CreateSessionDone(p) ==
  /\ p \in DOMAIN creations
  /\ creations[p].state = "pending"
  /\ creations' = [creations EXCEPT ![p].state = "resolved"]
  /\ ctxs' = MapSet(ctxs, p, NewContext(creations[p].sid))
  /\ sessionContexts' = MapSet(sessionContexts, creations[p].sid, p)
  /\ sessionCreationPromises' = MapDel(sessionCreationPromises, creations[p].sid)
  /\ req' = [r \in Reqs |->
               IF r \in Waiting(p) THEN Settle(Body(req[r], p, <<>>).rq) ELSE req[r]]
  /\ sent' = {m \in {Body(req[r], p, <<>>).rq : r \in Waiting(p)} : m.pc = "done"}
  /\ dirs' = dirs \cup {creations[p].sid}
  /\ UNCHANGED <<pureVars, now, destroys, files, unreadable, addVars, downloadTokenIndex, nextId>>

\* a mkdir throws: the closure rejects and leaves its map entry behind; every
\* handler awaiting it answers 500 "Session error"
CreateSessionFail(p) ==
  /\ p \in DOMAIN creations
  /\ creations[p].state = "pending"
  /\ creations' = [creations EXCEPT ![p].state = "rejected"]
  /\ req' = [r \in Reqs |->
               IF r \in Waiting(p)
               THEN Answered([req[r] EXCEPT !.pc = "done", !.status = 500])
               ELSE req[r]]
  /\ sent' = {[req[r] EXCEPT !.pc = "done", !.status = 500] : r \in Waiting(p)}
  /\ UNCHANGED <<pureVars, now, sessionContexts, sessionCreationPromises, destroys, ctxs,
                 fsVars, addVars, downloadTokenIndex, nextId>>

\* a handler's last step: the request answers with final state rec
Answer(r, rec) ==
  /\ req' = [req EXCEPT ![r] = Answered(rec)]
  /\ sent' = {rec}

\* ---------------------------------------------------------- /api/add
AddRequest(r, s, token, v) == Receive(r, NewReq("add", s, token, v, <<>>))

\* the url is no http(s) url: 400 before the session is resolved
AddBadUrl(r, s) ==
  /\ CanReceive(r)
  /\ Answer(r, [NewReq("add", s, NoToken, "none", <<>>) EXCEPT
                  !.slot = r, !.pc = "done", !.status = 400, !.valid = FALSE])
  /\ UNCHANGED <<pureVars, now, sessVars, ctxs, fsVars, addVars, downloadTokenIndex, nextId>>

\* requireBinsOrThrow does not throw
BinsFound == bins.ff /\ bins.yd

\* getVideoMetaDetailed throws (requireBinsOrThrow) at the handler's await of
\* getVideoMetaSmart, which no try encloses: the handler's promise rejects
\* and the handler answers nothing.  What becomes of the request is the
\* framework's business: it is left without an answer (and the rejection
\* unhandled), or the framework's own error handler answers 500.
AddMetaThrow(r) ==
  /\ req[r].route = "add" /\ req[r].pc = "meta"
  /\ ~BinsFound
  /\ \/ /\ req' = [req EXCEPT ![r].pc = "escaped", ![r].uncaught = TRUE]
        /\ sent' = {}
     \/ Answer(r, [req[r] EXCEPT !.pc = "done", !.status = 500, !.uncaught = TRUE])
  /\ UNCHANGED <<pureVars, now, sessVars, ctxs, fsVars, addVars, downloadTokenIndex, nextId>>

\* getVideoMetaSmart is not ok, or reports no duration
AddMetaFail(r) ==
  /\ req[r].route = "add" /\ req[r].pc = "meta"
  /\ BinsFound
  /\ Answer(r, [req[r] EXCEPT !.pc = "done", !.status = 400])
  /\ UNCHANGED <<pureVars, now, sessVars, ctxs, fsVars, addVars, downloadTokenIndex, nextId>>

\* metadata read; progress 0 recorded; the token is canceled: no spawn
AddCanceledBeforeStart(r) ==
  LET token == req[r].token IN
  /\ req[r].route = "add" /\ req[r].pc = "meta"
  /\ BinsFound
  /\ isAddCanceled(canceledAddTokens, token, now)
  /\ canceledAddTokens' =
       clearCanceledToken(purgeCanceledTokens(canceledAddTokens, now), token)
  /\ addProgressMap' =
       markAddProgressDone(setAddProgress(addProgressMap, token, 0, FALSE, now),
                           token, 0, now)
  /\ Answer(r, [req[r] EXCEPT !.pc = "done", !.status = 200, !.canceled = TRUE])
  /\ UNCHANGED <<pureVars, now, sessVars, ctxs, fsVars, downloadTokenIndex, nextId>>

\* AddSpawn without the pre-start check of the canceled set
AddSpawn_NoCancelCheck(r) ==
  LET token == req[r].token IN
  /\ req[r].route = "add" /\ req[r].pc = "meta"
  /\ BinsFound
  /\ canceledAddTokens' = canceledAddTokens
  /\ addProgressMap' = setAddProgress(addProgressMap, token, 0, FALSE, now)
  /\ req' = [req EXCEPT ![r].pc = "running", ![r].spawned = TRUE]
  /\ sent' = {}
  /\ UNCHANGED <<pureVars, now, sessVars, ctxs, fsVars, downloadTokenIndex, nextId>>

\* metadata read; progress 0 recorded; not canceled: yt-dlp is spawned
AddSpawn(r) ==
  LET token == req[r].token IN
  /\ req[r].route = "add" /\ req[r].pc = "meta"
  /\ BinsFound
  /\ ~isAddCanceled(canceledAddTokens, token, now)
  /\ canceledAddTokens' = AfterCancelCheck(canceledAddTokens, token, now)
  /\ addProgressMap' = setAddProgress(addProgressMap, token, 0, FALSE, now)
  /\ req' = [req EXCEPT ![r].pc = "running", ![r].spawned = TRUE]
  /\ sent' = {}
  /\ UNCHANGED <<pureVars, now, sessVars, ctxs, fsVars, downloadTokenIndex, nextId>>

\* a chunk of yt-dlp output: pct is the last "[download] N%" of the chunk
\* (-1 when it has none), marker tells whether it names a post-processing phase
updateProgressFromYtDlp(m, token, pct, marker, t) ==
  LET m1 == IF pct >= 0 THEN setAddProgress(m, token, Min(99, pct), FALSE, t) ELSE m
  IN IF marker THEN setAddProgress(m1, token, 99, FALSE, t) ELSE m1

AddOutput(r, pct, marker) ==
  /\ req[r].route = "add" /\ req[r].pc = "running"
  /\ req[r].token # NoToken
  /\ pct >= 0 \/ marker
  /\ addProgressMap' =
       updateProgressFromYtDlp(addProgressMap, req[r].token, pct, marker, now)
  /\ req' = [req EXCEPT ![r].fed = pct, ![r].marked = marker]
  /\ sent' = {}
  /\ UNCHANGED <<pureVars, now, sessVars, ctxs, fsVars, canceledAddTokens,
                 downloadTokenIndex, nextId>>

\* yt-dlp fails to start or exits nonzero: done at 0, 500
AddExitFail(r) ==
  LET token == req[r].token IN
  /\ req[r].route = "add" /\ req[r].pc = "running"
  /\ addProgressMap' =
       markAddProgressDone(markAddProgressDone(addProgressMap, token, 0, now),
                           token, 0, now)
  /\ canceledAddTokens' = clearCanceledToken(canceledAddTokens, token)
  /\ Answer(r, [req[r] EXCEPT !.pc = "done", !.status = 500])
  /\ UNCHANGED <<pureVars, now, sessVars, ctxs, fsVars, downloadTokenIndex, nextId>>

\* yt-dlp exits zero but prints no path: done at 100, then at 0, 500
AddExitNoPath(r) ==
  LET token == req[r].token IN
  /\ req[r].route = "add" /\ req[r].pc = "running"
  /\ addProgressMap' =
       markAddProgressDone(markAddProgressDone(addProgressMap, token, 100, now),
                           token, 0, now)
  /\ canceledAddTokens' = clearCanceledToken(canceledAddTokens, token)
  /\ Answer(r, [req[r] EXCEPT !.pc = "done", !.status = 500])
  /\ UNCHANGED <<pureVars, now, sessVars, ctxs, fsVars, downloadTokenIndex, nextId>>

\* yt-dlp exits zero and prints the path of the file it wrote: done at 100,
\* then the handler awaits fsp.stat
AddExitOk(r) ==
  LET path == TrackPath(req[r].ctx, req[r].video) IN
  /\ req[r].route = "add" /\ req[r].pc = "running"
  /\ files' = files \cup {path}
  /\ addProgressMap' = markAddProgressDone(addProgressMap, req[r].token, 100, now)
  /\ req' = [req EXCEPT ![r].pc = "stat", ![r].file = path]
  /\ sent' = {}
  /\ UNCHANGED <<pureVars, now, sessVars, ctxs, unreadable, dirs, canceledAddTokens,
                 downloadTokenIndex, nextId>>

StatOk(path) == path \in files /\ path \notin unreadable

\* AddStatFail whose catch block answers without unlinking the file
AddStatFail_NoUnlink(r) ==
  LET token == req[r].token IN
  /\ req[r].route = "add" /\ req[r].pc = "stat"
  /\ ~StatOk(req[r].file)
  /\ canceledAddTokens' = clearCanceledToken(canceledAddTokens, token)
  /\ addProgressMap' = markAddProgressDone(addProgressMap, token, 0, now)
  /\ Answer(r, [req[r] EXCEPT !.pc = "done", !.status = 500])
  /\ UNCHANGED <<pureVars, now, sessVars, ctxs, fsVars, downloadTokenIndex, nextId>>

\* fsp.stat throws: the catch block clears, marks done at 0, unlinks, 500
AddStatFail(r) ==
  LET token == req[r].token IN
  /\ req[r].route = "add" /\ req[r].pc = "stat"
  /\ ~StatOk(req[r].file)
  /\ canceledAddTokens' = clearCanceledToken(canceledAddTokens, token)
  /\ addProgressMap' = markAddProgressDone(addProgressMap, token, 0, now)
  /\ req' = [req EXCEPT ![r].pc = "unlink", ![r].unlinking = {req[r].file}]
  /\ sent' = {}
  /\ UNCHANGED <<pureVars, now, sessVars, ctxs, fsVars, downloadTokenIndex, nextId>>

\* the file is there but the token was canceled during the run
AddCanceledAfterRun(r) ==
  LET token == req[r].token IN
  /\ req[r].route = "add" /\ req[r].pc = "stat"
  /\ StatOk(req[r].file)
  /\ isAddCanceled(canceledAddTokens, token, now)
  /\ canceledAddTokens' =
       clearCanceledToken(purgeCanceledTokens(canceledAddTokens, now), token)
  /\ addProgressMap' = markAddProgressDone(addProgressMap, token, 0, now)
  /\ req' = [req EXCEPT ![r].pc = "unlink", ![r].canceled = TRUE,
                        ![r].unlinking = {req[r].file}]
  /\ sent' = {}
  /\ UNCHANGED <<pureVars, now, sessVars, ctxs, fsVars, downloadTokenIndex, nextId>>

\* AddRegister without the post-completion check of the canceled set
AddRegister_NoCancelCheck(r) ==
  LET token == req[r].token
      c == req[r].ctx
      item == [id |-> nextId + 1, duration |-> DurationOf(req[r].video),
               filepath |-> req[r].file, by |-> r,
               afterCancel |-> req[r].cancelSeen]
  IN
  /\ req[r].route = "add" /\ req[r].pc = "stat"
  /\ StatOk(req[r].file)
  /\ nextId' = nextId + 1
  /\ ctxs' = [ctxs EXCEPT ![c].playlist = PlaylistAdd(@, item),
                          ![c].lastAccess = now]
  /\ canceledAddTokens' = clearCanceledToken(canceledAddTokens, token)
  /\ Answer(r, [req[r] EXCEPT !.pc = "done", !.status = 200, !.item = item.id,
                                !.total = totalSeconds(ctxs'[c].playlist)])
  /\ UNCHANGED <<pureVars, now, sessVars, fsVars, addProgressMap, downloadTokenIndex>>

\* the file is there and the token is not canceled: the track is registered
\* (by and afterCancel are bookkeeping: the request that produced the track,
\* and whether a cancel had arrived for it before its job ended)
AddRegister(r) ==
  LET token == req[r].token
      c == req[r].ctx
      item == [id |-> nextId + 1, duration |-> DurationOf(req[r].video),
               filepath |-> req[r].file, by |-> r,
               afterCancel |-> req[r].cancelSeen]
  IN
  /\ req[r].route = "add" /\ req[r].pc = "stat"
  /\ StatOk(req[r].file)
  /\ ~isAddCanceled(canceledAddTokens, token, now)
  /\ nextId' = nextId + 1
  /\ ctxs' = [ctxs EXCEPT ![c].playlist = PlaylistAdd(@, item),
                          ![c].lastAccess = now]
  /\ canceledAddTokens' =
       clearCanceledToken(AfterCancelCheck(canceledAddTokens, token, now), token)
  /\ Answer(r, [req[r] EXCEPT !.pc = "done", !.status = 200, !.item = item.id,
                                !.total = totalSeconds(ctxs'[c].playlist)])
  /\ UNCHANGED <<pureVars, now, sessVars, fsVars, addProgressMap, downloadTokenIndex>>

\* the awaited safeUnlink calls of add, clear and remove return: the response
FinishUnlink(r) ==
  /\ req[r].pc = "unlink"
  /\ files' = files \ req[r].unlinking
  /\ unreadable' = unreadable \ req[r].unlinking
  /\ dirs' = dirs
  /\ Answer(r, [req[r] EXCEPT !.pc = "done",
                  !.status = IF req[r].route = "add" /\ ~req[r].canceled
                             THEN 500 ELSE 200])
  /\ UNCHANGED <<pureVars, now, sessVars, ctxs, addVars, downloadTokenIndex, nextId>>

\* ------------------------------------------- sessionCookieMiddleware
\* no identifier: a missing cookie or header, and what sanitizeSessionId
\* returns for a malformed one
NoSid == "none"

\* the identifiers nanoid(24) may return
MintIds == {"n1", "n2"}

\* the strings that pass /^[A-Za-z0-9_-]{10,}$/
WellFormedIds == Sessions \cup MintIds

sanitizeSessionId(id) == IF id \in WellFormedIds THEN id ELSE NoSid

\* only a live context makes a hint known
headerKnown_LiveOnly(headerHint) ==
  headerHint # NoSid /\ headerHint \in DOMAIN sessionContexts

headerKnown(headerHint) ==
  /\ headerHint # NoSid
  /\ (headerHint \in DOMAIN sessionContexts
      \/ headerHint \in DOMAIN sessionCreationPromises)

\* a hint is adopted only when it is known
sessionCookieMiddleware_KnownOnly(cookie, hint, minted) ==
  IF headerKnown(sanitizeSessionId(hint)) THEN sanitizeSessionId(hint)
  ELSE IF sanitizeSessionId(cookie) # NoSid THEN sanitizeSessionId(cookie)
  ELSE minted

\* req.sessionId as the middleware leaves it; minted is what nanoid(24)
\* returns when it is called
sessionCookieMiddleware(cookie, hint, minted) ==
  LET cookieSid == sanitizeSessionId(cookie)
      headerHint == sanitizeSessionId(hint)
      sid == IF headerHint # NoSid /\ (cookieSid = NoSid \/ cookieSid # headerHint)
             THEN IF headerKnown(headerHint) THEN headerHint
                  ELSE IF cookieSid = NoSid THEN headerHint
                  ELSE cookieSid
             ELSE cookieSid
  IN IF sid = NoSid THEN minted ELSE sid

\* the identifiers in use: nanoid returns none of them
UsedIds ==
  DOMAIN sessionContexts \cup DOMAIN sessionCreationPromises
    \cup {req[k].sid : k \in Reqs}

\* GET /api/list with the given cookie and X-CD-Session header
HintedRequest(r, cookie, hint) ==
  \E minted \in (IF MintIds \ UsedIds = {} THEN {NoSid} ELSE MintIds \ UsedIds) :
    /\ sessionCookieMiddleware(cookie, hint, minted) # NoSid
    /\ Receive(r, [NewReq("list", sessionCookieMiddleware(cookie, hint, minted),
                          NoToken, "none", <<>>)
                     EXCEPT !.cookie = cookie, !.hint = hint])

\* ------------------------------- /api/list, clear, remove/:id, reorder
ListRequest(r, s) == Receive(r, NewReq("list", s, NoToken, "none", <<>>))

ClearRequest(r, s) == Receive(r, NewReq("clear", s, NoToken, "none", <<>>))

RemoveRequest(r, s, id) == Receive(r, NewReq("remove", s, NoToken, "none", <<id>>))

\* order is the array of the request body
ReorderRequest(r, s, order) == Receive(r, NewReq("reorder", s, NoToken, "none", order))

\* the body holds no array "order": 400 before the session is resolved
ReorderMissingOrder(r, s) ==
  /\ CanReceive(r)
  /\ Answer(r, [NewReq("reorder", s, NoToken, "none", <<>>) EXCEPT
                  !.slot = r, !.pc = "done", !.status = 400, !.valid = FALSE])
  /\ UNCHANGED <<pureVars, now, sessVars, ctxs, fsVars, addVars, downloadTokenIndex, nextId>>

\* ----------------------------------------------------------- /api/probe
\* The middleware resolves the request to identifier s and renews its cookie;
\* the handler reads the metadata and answers (400 when they cannot be read)
\* without a call of getSessionContext.
ProbeRequest(r, s, ok) ==
  /\ CanReceive(r)
  /\ Answer(r, [NewReq("probe", s, NoToken, "none", <<>>) EXCEPT
                  !.slot = r, !.pc = "done", !.status = IF ok THEN 200 ELSE 400])
  /\ UNCHANGED <<pureVars, now, sessVars, ctxs, fsVars, addVars, downloadTokenIndex, nextId>>

\* ------------------------------------------- /api/cancel-add, add-progress
\* CancelAdd that also takes the token's entry out of the progress table
CancelAdd_DropsProgress(token) ==
  /\ canceledAddTokens' = markAddCanceled(canceledAddTokens, token, now)
  /\ addProgressMap' = MapDel(addProgressMap, token)
  /\ req' = [r \in Reqs |->
               IF req[r].route = "add" /\ req[r].token = token
                  /\ req[r].pc \in {"awaitCtx", "meta", "running"}
               THEN [req[r] EXCEPT !.cancelSeen = TRUE]
               ELSE req[r]]
  /\ sent' = {}
  /\ UNCHANGED <<pureVars, now, sessVars, ctxs, fsVars, downloadTokenIndex, nextId>>

\* the handler records the token; cancelSeen notes, for the requests being
\* handled with that token, that a cancel arrived before their job completed
CancelAdd(token) ==
  /\ canceledAddTokens' = markAddCanceled(canceledAddTokens, token, now)
  /\ req' = [r \in Reqs |->
               IF req[r].route = "add" /\ req[r].token = token
                  /\ req[r].pc \in {"awaitCtx", "meta", "running"}
               THEN [req[r] EXCEPT !.cancelSeen = TRUE]
               ELSE req[r]]
  /\ sent' = {}
  /\ UNCHANGED <<pureVars, now, sessVars, ctxs, fsVars, addProgressMap,
                 downloadTokenIndex, nextId>>

\* a read that takes the entry out of the table
readAddProgress_Consume(m, token, t) ==
  LET purged == purgeAddProgress(m, t)
  IN [map |-> MapDel(purged, token),
      entry |-> IF token \in DOMAIN purged
                THEN <<[value |-> purged[token].value, done |-> purged[token].done]>>
                ELSE <<>>]

\* readAddProgress purges the table before it reads; entry is <<>> for null
readAddProgress(m, token, t) ==
  LET purged == purgeAddProgress(m, t)
  IN [map |-> purged,
      entry |-> IF token \in DOMAIN purged
                THEN <<[value |-> purged[token].value, done |-> purged[token].done]>>
                ELSE <<>>]

\* GET /api/add-progress/:token, answered in one step; polledDone notes, for
\* the add requests being handled with that token, that a poll has answered
\* {progress: 100, done: true}
PollProgress(r, token) ==
  LET read == readAddProgress(addProgressMap, token, now)
      rec0 == [NewReq("progress", "none", token, "none", <<>>)
                 EXCEPT !.slot = r, !.pc = "done", !.status = 200]
      rec == IF read.entry = <<>>
             THEN [rec0 EXCEPT !.progress = NoProgress, !.done = FALSE]
             ELSE [rec0 EXCEPT !.progress = read.entry[1].value,
                               !.done = read.entry[1].done]
  IN /\ CanReceive(r)
     /\ addProgressMap' = read.map
     /\ req' = [x \in Reqs |->
                  IF x = r THEN Answered(rec)
                  ELSE IF /\ req[x].route = "add" /\ req[x].token = token
                          /\ req[x].pc \notin {"idle", "done"}
                          /\ rec.progress = 100 /\ rec.done
                  THEN [req[x] EXCEPT !.polledDone = TRUE]
                  ELSE req[x]]
     /\ sent' = {rec}
     /\ UNCHANGED <<pureVars, now, sessVars, ctxs, fsVars, canceledAddTokens,
                    downloadTokenIndex, nextId>>

\* ---------------------------------------------------- getVideoMetaSmart
\* String.prototype.toLowerCase on the codec markers the model uses
ToLower(str) ==
  CASE str = "NONE" -> "none"
    [] str = "OPUS" -> "opus"
    [] OTHER -> str

\* does meta.formats hold an audio-only format of at least 44.1 kHz
hasAudioOnlyHi(formats) ==
  \E i \in DOMAIN formats :
    /\ ToLower(formats[i].vcodec) = "none"
    /\ formats[i].acodec \notin {"", "none"}
    /\ formats[i].asr >= 44100

\* the array handed on in the order the probes completed
Gathered_ByCompletion(results, settled) ==
  [k \in DOMAIN settled |-> results[settled[k]]]

\* Promise.all: the array of the results, in the order of the promises,
\* whatever the order in which they settled
Gathered(results, settled) == results

\* the selection among the gathered results: the first that is ok with an
\* audio-only format of at least 44.1 kHz; else the first of the ok results
\* after a stable sort by descending number of formats; else the first result
SmartSelect(results) ==
  LET good == {i \in DOMAIN results : results[i].ok /\ hasAudioOnlyHi(results[i].formats)}
      oks == {i \in DOMAIN results : results[i].ok}
      richest == {i \in oks : \A j \in oks :
                    Len(results[j].formats) <= Len(results[i].formats)}
  IN IF good # {} THEN results[CHOOSE i \in good : \A j \in good : i <= j]
     ELSE IF oks # {} THEN results[CHOOSE i \in richest : \A j \in richest : i <= j]
     ELSE results[1]

\* one probe (getVideoMetaDetailed) settles
ProbeSettle(i) ==
  /\ i \in DOMAIN probe.results
  /\ \A k \in DOMAIN probe.settled : probe.settled[k] # i
  /\ probe' = [probe EXCEPT !.settled = Append(@, i)]
  /\ UNCHANGED <<now, sessVars, ctxs, req, sent, fsVars, addVars,
                 downloadTokenIndex, nextId, pick, bins>>

\* all probes have settled: the await of Promise.all returns and the
\* selection is made
ProbeSelect ==
  /\ ~probe.done
  /\ probe.results # <<>>
  /\ Len(probe.settled) = Len(probe.results)
  /\ probe' = [probe EXCEPT !.done = TRUE,
                            !.out = SmartSelect(Gathered(probe.results, probe.settled))]
  /\ UNCHANGED <<now, sessVars, ctxs, req, sent, fsVars, addVars,
                 downloadTokenIndex, nextId, pick, bins>>

\* ---------------------------------------------------- chooseBestFormat
\* A descriptor is [id, acodec, vcodec, asr, abr, tbr]; Absent stands for a
\* field that is undefined.  Bitrates are whole kbps (Math.round leaves them)
\* and sample rates are numbers (parseInt is not needed).  The result of a
\* call is <<>> for null and <<f>> for the descriptor f.
Absent == -1

\* x || 0
OrZero(x) == IF x = Absent THEN 0 ELSE x

\* norm: abr falls back on tbr, the codec strings are lower-cased
norm(f) ==
  [f EXCEPT !.abr = IF f.abr # Absent THEN f.abr
                    ELSE IF f.tbr # Absent /\ f.tbr # 0 THEN f.tbr ELSE Absent,
            !.vcodec = ToLower(f.vcodec),
            !.acodec = ToLower(f.acodec)]

\* a filter that keeps every entry whose audio codec string is not empty
HasAudio_Truthy(f) == f.acodec # ""

\* the filter made before norm: f.acodec && f.acodec !== "none"
HasAudio(f) == f.acodec # "" /\ f.acodec # "none"

\* the predicates of the three tiers; the codec strings that occur hold
\* "opus", "aac" or "mp4a", or none of them
isAny(f) == TRUE

\* an opus test that every codec passes
isOpus_Any(f) == TRUE

isOpus(f) == f.acodec \in {"opus"}
isAac(f) == f.acodec \in {"aac", "mp4a.40.2"}

\* the comparator: negative when a goes before b
byBitrate(a, b) ==
  IF OrZero(b.abr) - OrZero(a.abr) # 0 THEN OrZero(b.abr) - OrZero(a.abr)
  ELSE OrZero(b.tbr) - OrZero(a.tbr)

\* x put into the sorted sequence before the first element it goes strictly
\* before, behind its equals (Array.prototype.sort is stable)
InsertSorted(sorted, x) ==
  LET later == {k \in DOMAIN sorted : byBitrate(x, sorted[k]) < 0}
      at == IF later = {} THEN Len(sorted) + 1
            ELSE CHOOSE k \in later : \A j \in later : k <= j
  IN [k \in 1..(Len(sorted) + 1) |->
        IF k < at THEN sorted[k] ELSE IF k = at THEN x ELSE sorted[k - 1]]

RECURSIVE SortByBitrate(_)
SortByBitrate(arr) ==
  IF arr = <<>> THEN <<>>
  ELSE InsertSorted(SortByBitrate(SubSeq(arr, 1, Len(arr) - 1)), arr[Len(arr)])

\* pick: arr.filter(pred).sort(byBitrate)[0]
pickBest(arr, pred) ==
  LET sorted == SortByBitrate(SelectSeq(arr, LAMBDA f : pred[f]))
  IN IF sorted = <<>> THEN <<>> ELSE <<sorted[1]>>

\* a chooser whose pick depends on the clock
chooseBestFormat_ByClock(formatsRaw) ==
  LET all == [i \in DOMAIN SelectSeq(formatsRaw, HasAudio) |->
                norm(SelectSeq(formatsRaw, HasAudio)[i])]
      hi == SelectSeq(all, LAMBDA f : f.vcodec = "none" /\ OrZero(f.asr) >= 44100)
  IN IF hi = <<>> THEN <<>> ELSE IF now = 0 THEN <<hi[1]>> ELSE <<hi[Len(hi)]>>

chooseBestFormat(formatsRaw) ==
  LET kept == SelectSeq(formatsRaw, HasAudio)
      all == [i \in DOMAIN kept |-> norm(kept[i])]
      audioOnly == SelectSeq(all, LAMBDA f : f.vcodec = "none")
      hiAudioOnly == SelectSeq(audioOnly, LAMBDA f : OrZero(f.asr) >= 44100)
      among == Range(hiAudioOnly)
      opus == [f \in among |-> isOpus(f)]
      aac == [f \in among |-> isAac(f)]
      any == [f \in among |-> isAny(f)]
  IN IF pickBest(hiAudioOnly, opus) # <<>> THEN pickBest(hiAudioOnly, opus)
     ELSE IF pickBest(hiAudioOnly, aac) # <<>> THEN pickBest(hiAudioOnly, aac)
     ELSE pickBest(hiAudioOnly, any)

\* a call of chooseBestFormat on the list; its second call is made later, on
\* the same list
ChooseCall ==
  /\ pick.calls < 2
  /\ pick' = IF pick.calls = 0
             THEN [pick EXCEPT !.calls = 1, !.out = chooseBestFormat(pick.formats)]
             ELSE [pick EXCEPT !.calls = 2, !.again = chooseBestFormat(pick.formats)]
  /\ UNCHANGED <<now, sessVars, ctxs, req, sent, fsVars, addVars,
                 downloadTokenIndex, nextId, probe, bins>>

\* ------------------------------------------------------- download tokens
\* The index and the contexts go through these functions together:
\* st = [index |-> downloadTokenIndex, ctxs |-> ctxs, live |-> sessionContexts]

\* dropDownloadToken that leaves the session's token set alone
dropDownloadToken_IndexOnly(st, token, entry) ==
  [st EXCEPT !.index = MapDel(st.index, token)]

dropDownloadToken(st, token, entry) ==
  LET c == IF entry.sessionId \in DOMAIN st.live THEN st.live[entry.sessionId] ELSE 0
  IN [st EXCEPT !.index = MapDel(st.index, token),
                !.ctxs = IF c = 0 THEN st.ctxs
                         ELSE [st.ctxs EXCEPT ![c].downloadTokens = @ \ {token}]]

RECURSIVE DropAll(_, _)
DropAll(st, tokens) ==
  IF tokens = {} THEN st
  ELSE LET token == CHOOSE x \in tokens : TRUE
       IN DropAll(dropDownloadToken(st, token, st.index[token]), tokens \ {token})

\* purgeDownloadTokens that keeps a token at the instant of its expiry
purgeDownloadTokens_Strict(st, t) ==
  DropAll(st, {token \in DOMAIN st.index : st.index[token].expiresAt < t})

purgeDownloadTokens(st, t) ==
  DropAll(st, {token \in DOMAIN st.index : st.index[token].expiresAt <= t})

\* token stands for the fresh nanoid
registerDownloadToken(st, c, filePath, token, t) ==
  [st EXCEPT !.index = MapSet(st.index, token,
                              [sessionId |-> st.ctxs[c].id, path |-> filePath,
                               expiresAt |-> t + DOWNLOAD_TOKEN_TTL]),
             !.ctxs = [st.ctxs EXCEPT ![c].downloadTokens = @ \cup {token},
                                      ![c].lastAccess = t]]

TokenState == [index |-> downloadTokenIndex, ctxs |-> ctxs, live |-> sessionContexts]

\* the downloads directory of a session is downloads/session-<sha256(id)>
DownloadPath(s, v, attempt) == <<s, v, attempt>>

\* ------------------------------------------------------- /api/convert
ConvertRequest(r, s, v) == Receive(r, NewReq("convert", s, NoToken, v, <<>>))

\* metadata, download or transcode throws: 500 "Convert failed"
ConvertFail(r) ==
  /\ req[r].route = "convert" /\ req[r].pc = "job"
  /\ Answer(r, [req[r] EXCEPT !.pc = "done", !.status = 500])
  /\ UNCHANGED <<pureVars, now, sessVars, ctxs, fsVars, addVars, downloadTokenIndex, nextId>>

\* moveIntoDownloads, one turn of its loop up to the await of the rename: the
\* transcoding has ended (or the previous name was taken) and fsp.access of
\* the name with the current suffix settles.  The name exists: the loop goes
\* on to the next suffix.  ENOENT: the handler calls fsp.rename and awaits it.
ConvertAccess(r) ==
  LET s == ctxs[req[r].ctx].id
      k == req[r].attempt
  IN
  /\ req[r].route = "convert" /\ req[r].pc \in {"job", "move"}
  /\ k < MaxAttempts
  /\ req' = IF DownloadPath(s, req[r].video, k) \in files
            THEN [req EXCEPT ![r].pc = "move", ![r].attempt = k + 1]
            ELSE [req EXCEPT ![r].pc = "rename"]
  /\ sent' = {}
  /\ UNCHANGED <<pureVars, now, sessVars, ctxs, fsVars, addVars, downloadTokenIndex, nextId>>

\* fsp.rename settles: the transcoded file is at the destination, in the place
\* of whatever file had that name by then (overwrote is bookkeeping); the
\* handler then awaits fsp.stat, whose failure it ignores
ConvertRename(r) ==
  LET path == DownloadPath(ctxs[req[r].ctx].id, req[r].video, req[r].attempt) IN
  /\ req[r].route = "convert" /\ req[r].pc = "rename"
  /\ files' = files \cup {path}
  /\ req' = [req EXCEPT ![r].pc = "publish", ![r].file = path,
                        ![r].overwrote = path \in files]
  /\ sent' = {}
  /\ UNCHANGED <<pureVars, now, sessVars, ctxs, unreadable, dirs, addVars, downloadTokenIndex, nextId>>

\* registerDownloadToken and the response with the link
ConvertPublish(r) ==
  LET st == registerDownloadToken(TokenState, req[r].ctx, req[r].file, nextId + 1, now)
  IN
  /\ req[r].route = "convert" /\ req[r].pc = "publish"
  /\ nextId' = nextId + 1
  /\ downloadTokenIndex' = st.index
  /\ ctxs' = st.ctxs
  /\ Answer(r, [req[r] EXCEPT !.pc = "done", !.status = 200, !.item = nextId + 1])
  /\ UNCHANGED <<pureVars, now, sessVars, fsVars, addVars>>

\* ---------------------------------------------- GET/HEAD /downloads/:token
\* serveDownload up to its await of fsp.stat: the purge, the lookup, and the
\* rebinding of the request to the session of the entry
\* a rebind that leaves the cookie alone
Rebind_HeaderOnly(rec, owner) ==
  [rec EXCEPT !.sid = owner, !.xSession = owner]

\* serveDownload binds the request to the session that owns the token: a
\* further Set-Cookie when the caller's identifier differs, and the header
Rebind(rec, owner) ==
  [rec EXCEPT !.sid = owner,
              !.setCookies = IF rec.sid # owner THEN Append(@, owner) ELSE @,
              !.xSession = owner]

DownloadRequest(r, s, token, head) ==
  LET st == purgeDownloadTokens(TokenState, now)
      rec == [NewReq("download", s, NoToken, "none", <<token>>) EXCEPT
                !.slot = r, !.head = head]
  IN
  /\ CanReceive(r)
  /\ downloadTokenIndex' = st.index
  /\ ctxs' = st.ctxs
  /\ IF token \notin DOMAIN st.index
     THEN Answer(r, [rec EXCEPT !.pc = "done", !.status = 404])
     ELSE /\ req' = [req EXCEPT ![r] =
                       [Rebind(rec, st.index[token].sessionId) EXCEPT
                          !.pc = "dlstat", !.file = st.index[token].path]]
          /\ sent' = {}
  /\ UNCHANGED <<pureVars, now, sessVars, fsVars, addVars, nextId>>

\* the entry object a redemption holds
EntryOf(r) == [sessionId |-> req[r].sid, path |-> req[r].file]

\* fsp.stat throws ENOENT: the token is dropped, 404
DlStatMissing(r) ==
  LET st == dropDownloadToken(TokenState, req[r].arg[1], EntryOf(r)) IN
  /\ req[r].route = "download" /\ req[r].pc = "dlstat"
  /\ req[r].file \notin files
  /\ downloadTokenIndex' = st.index
  /\ ctxs' = st.ctxs
  /\ Answer(r, [req[r] EXCEPT !.pc = "done", !.status = 404])
  /\ UNCHANGED <<pureVars, now, sessVars, fsVars, addVars, nextId>>

\* fsp.stat throws another error: the token is dropped, 500
DlStatError(r) ==
  LET st == dropDownloadToken(TokenState, req[r].arg[1], EntryOf(r)) IN
  /\ req[r].route = "download" /\ req[r].pc = "dlstat"
  /\ req[r].file \in files /\ req[r].file \in unreadable
  /\ downloadTokenIndex' = st.index
  /\ ctxs' = st.ctxs
  /\ Answer(r, [req[r] EXCEPT !.pc = "done", !.status = 500])
  /\ UNCHANGED <<pureVars, now, sessVars, fsVars, addVars, nextId>>

\* fsp.stat returns a file: the entry's expiry is pushed out and the session
\* touched; HEAD answers 200, GET starts the transfer
DlStatOk(r) ==
  LET token == req[r].arg[1]
      c == ContextOf(req[r].sid)
  IN
  /\ req[r].route = "download" /\ req[r].pc = "dlstat"
  /\ StatOk(req[r].file)
  /\ downloadTokenIndex' =
       IF token \in DOMAIN downloadTokenIndex
       THEN [downloadTokenIndex EXCEPT ![token].expiresAt = now + DOWNLOAD_TOKEN_TTL]
       ELSE downloadTokenIndex
  /\ ctxs' = IF c = 0 THEN ctxs ELSE [ctxs EXCEPT ![c].lastAccess = now]
  /\ IF req[r].head
     THEN Answer(r, [req[r] EXCEPT !.pc = "done", !.status = 200])
     ELSE req' = [req EXCEPT ![r].pc = "send"] /\ sent' = {}
  /\ UNCHANGED <<pureVars, now, sessVars, fsVars, addVars, nextId>>

\* res.download's callback; its outcome is that of opening the file
\* the transfer completes: the token is dropped
DlSendOk(r) ==
  LET st == dropDownloadToken(TokenState, req[r].arg[1], EntryOf(r)) IN
  /\ req[r].route = "download" /\ req[r].pc = "send"
  /\ StatOk(req[r].file)
  /\ downloadTokenIndex' = st.index
  /\ ctxs' = st.ctxs
  /\ Answer(r, [req[r] EXCEPT !.pc = "done", !.status = 200])
  /\ UNCHANGED <<pureVars, now, sessVars, fsVars, addVars, nextId>>

\* the send fails with ENOENT: the token is dropped, 404
DlSendMissing(r) ==
  LET st == dropDownloadToken(TokenState, req[r].arg[1], EntryOf(r)) IN
  /\ req[r].route = "download" /\ req[r].pc = "send"
  /\ req[r].file \notin files
  /\ downloadTokenIndex' = st.index
  /\ ctxs' = st.ctxs
  /\ Answer(r, [req[r] EXCEPT !.pc = "done", !.status = 404])
  /\ UNCHANGED <<pureVars, now, sessVars, fsVars, addVars, nextId>>

\* the send fails with another error before any header is sent: 500, and the
\* token stays
DlSendError(r) ==
  /\ req[r].route = "download" /\ req[r].pc = "send"
  /\ req[r].file \in files /\ req[r].file \in unreadable
  /\ Answer(r, [req[r] EXCEPT !.pc = "done", !.status = 500])
  /\ UNCHANGED <<pureVars, now, sessVars, ctxs, fsVars, addVars, downloadTokenIndex, nextId>>

\* ------------------------------------------------- the downloads directory
\* somebody else deletes a published file
FileVanish(path) ==
  /\ path \in files /\ Len(path) = 3
  /\ files' = files \ {path}
  /\ unreadable' = unreadable \ {path}
  /\ dirs' = dirs
  /\ sent' = {}
  /\ UNCHANGED <<pureVars, now, sessVars, ctxs, req, addVars, downloadTokenIndex, nextId>>

\* a published file stops being readable (permissions, I/O error): stat and
\* open fail on it with an error other than ENOENT
FileBreak(path) ==
  /\ path \in files /\ Len(path) = 3 /\ path \notin unreadable
  /\ unreadable' = unreadable \cup {path}
  /\ sent' = {}
  /\ UNCHANGED <<pureVars, now, sessVars, ctxs, req, files, dirs, addVars, downloadTokenIndex, nextId>>

\* the file a job has just written cannot be stat-ed (permissions, I/O error)
TrackFileBreak(path) ==
  /\ path \in files /\ Len(path) = 2 /\ path \notin unreadable
  /\ unreadable' = unreadable \cup {path}
  /\ sent' = {}
  /\ UNCHANGED <<pureVars, now, sessVars, ctxs, req, files, dirs, addVars, downloadTokenIndex, nextId>>

\* ------------------------------------------------------- the sweep timer
\* destroySessionContext up to its first await, on st (see TokenState): the
\* identifier leaves the session map, the tokens of the context are dropped,
\* its token set and its playlist are emptied
\* a destruction that leaves the playlist as it is
destroySessionContext_KeepPlaylist(st, sid) ==
  LET c == st.live[sid]
      st1 == [st EXCEPT !.live = MapDel(st.live, sid)]
      st2 == DropAll(st1, st1.ctxs[c].downloadTokens \cap DOMAIN st1.index)
  IN [st2 EXCEPT !.ctxs = [st2.ctxs EXCEPT ![c].downloadTokens = {}]]

destroySessionContext(st, sid) ==
  LET c == st.live[sid]
      st1 == [st EXCEPT !.live = MapDel(st.live, sid)]
      st2 == DropAll(st1, st1.ctxs[c].downloadTokens \cap DOMAIN st1.index)
  IN [st2 EXCEPT !.ctxs = [st2.ctxs EXCEPT ![c].downloadTokens = {},
                                           ![c].playlist = PlaylistClear(@)]]

RECURSIVE DestroyAll(_, _)
DestroyAll(st, sids) ==
  IF sids = {} THEN st
  ELSE LET sid == CHOOSE x \in sids : TRUE
       IN DestroyAll(destroySessionContext(st, sid), sids \ {sid})

\* purgeStaleSessions: the identifiers whose context was last used
\* SESSION_COOKIE_MAX_AGE ago or earlier
StaleSessions(st, t) ==
  {sid \in DOMAIN st.live : st.ctxs[st.live[sid]].lastAccess + SESSION_COOKIE_MAX_AGE <= t}

\* The interval callback: purgeDownloadTokens, then purgeStaleSessions, which
\* runs every destroySessionContext up to its await of the unlinks.
Sweep ==
  LET st1 == purgeDownloadTokens(TokenState, now)
      stale == StaleSessions(st1, now)
      st2 == DestroyAll(st1, stale)
      gone == {st1.live[sid] : sid \in stale}
  IN
  /\ downloadTokenIndex' = st2.index
  /\ ctxs' = st2.ctxs
  /\ sessionContexts' = st2.live
  /\ sessionCreationPromises' =
       [sid \in DOMAIN sessionCreationPromises \ stale |-> sessionCreationPromises[sid]]
  /\ destroys' =
       [c \in DOMAIN destroys \cup gone |->
          IF c \in gone
          THEN [stage |-> "unlink",
                unlinking |-> {st1.ctxs[c].playlist[i].filepath :
                                 i \in DOMAIN st1.ctxs[c].playlist}]
          ELSE destroys[c]]
  /\ sent' = {}
  /\ UNCHANGED <<pureVars, now, creations, req, fsVars, addVars, nextId>>

\* destroySessionContext: the unlinks of the cleared tracks have settled; the
\* removal of the session's directories is awaited next
DestroyUnlinked(c) ==
  /\ c \in DOMAIN destroys /\ destroys[c].stage = "unlink"
  /\ files' = files \ destroys[c].unlinking
  /\ unreadable' = unreadable \ destroys[c].unlinking
  /\ dirs' = dirs
  /\ destroys' = [destroys EXCEPT ![c].stage = "rm"]
  /\ sent' = {}
  /\ UNCHANGED <<pureVars, now, sessionContexts, sessionCreationPromises, creations, ctxs,
                 req, addVars, downloadTokenIndex, nextId>>

\* the files below the directories of the session of context c
SessionFiles(c) == {f \in files : f[1] = ctxs[c].id}

\* destroySessionContext: fsp.rm of the track, scratch and downloads
\* directories has settled
DestroyRemoved(c) ==
  /\ c \in DOMAIN destroys /\ destroys[c].stage = "rm"
  /\ files' = files \ SessionFiles(c)
  /\ unreadable' = unreadable \ SessionFiles(c)
  /\ dirs' = dirs \ {ctxs[c].id}
  /\ destroys' = MapDel(destroys, c)
  /\ sent' = {}
  /\ UNCHANGED <<pureVars, now, sessionContexts, sessionCreationPromises, creations, ctxs,
                 req, addVars, downloadTokenIndex, nextId>>

\* ------------------------------------------------------------------ time
\* The clock moves in steps of minutes: no mkdir, stat or unlink is pending
\* that long.  limit caps the clock.
Tick(d, limit) ==
  /\ now + d <= limit
  /\ \A r \in Reqs : req[r].pc \notin {"awaitCtx", "stat", "unlink", "move", "rename",
                                    "publish", "dlstat"}
  /\ destroys = EmptyMap
  /\ now' = now + d
  /\ sent' = {}
  /\ UNCHANGED <<pureVars, sessVars, ctxs, req, fsVars, addVars, downloadTokenIndex, nextId>>

\* ------------------------------------- the add / cancel / progress protocol
\* Add requests of one session that share one client token, cancel requests
\* for it, and a clock that can outlast the canceled-token TTL.
NextAdd ==
  \/ \E r \in 1..MaxAddReq : AddRequest(r, "sA", "t1", "v1")
  \/ \E p \in DOMAIN creations : CreateSessionDone(p)
  \/ \E r \in Reqs : AddMetaFail(r)
  \/ \E r \in Reqs : AddCanceledBeforeStart(r)
  \/ \E r \in Reqs : AddSpawn(r)
  \/ \E r \in Reqs : AddOutput(r, 50, FALSE)
  \/ \E r \in Reqs : AddExitFail(r)
  \/ \E r \in Reqs : AddExitNoPath(r)
  \/ \E r \in Reqs : AddExitOk(r)
  \/ \E r \in Reqs : AddStatFail(r)
  \/ \E r \in Reqs : AddCanceledAfterRun(r)
  \/ \E r \in Reqs : AddRegister(r)
  \/ \E r \in Reqs : FinishUnlink(r)
  \/ CancelAdd("t1")
  \/ Tick(CANCELED_TOKEN_TTL, MaxTime)

SpecAdd == Init /\ [][NextAdd]_vars

\* --------------------------------------------------- the progress table
\* Add requests that share one token, fed progress lines in any order, polls,
\* and a clock that can outlast the active-entry TTL.
Pcts == {30, 50, 80}

NextProgress ==
  \/ \E r \in 1..MaxAddReq : AddRequest(r, "sA", "t1", "v1")
  \/ \E p \in DOMAIN creations : CreateSessionDone(p)
  \/ \E r \in Reqs : AddSpawn(r)
  \/ \E r \in Reqs, pct \in Pcts \cup {-1}, marker \in BOOLEAN :
       AddOutput(r, pct, marker)
  \/ \E r \in Reqs : AddExitFail(r)
  \/ \E r \in Reqs : AddExitOk(r)
  \/ \E r \in Reqs : AddRegister(r)
  \/ \E r \in Reqs, t \in Tokens : PollProgress(r, t)
  \/ Tick(ADD_PROGRESS_ACTIVE_TTL, MaxTime)

SpecProgress == Init /\ [][NextProgress]_vars

\* ------------------------------------------------- sessions and playlists
\* the requests being handled
InFlight == {r \in Reqs : req[r].pc \notin {"idle", "done"}}

MaxInFlight == 2

\* a request is accepted while fewer than MaxInFlight are being handled
Accepting == Cardinality(InFlight) < MaxInFlight

\* Requests of two sessions on the routes that change a playlist; the context
\* creations succeed or fail.  Adds carry no client token here, so the
\* progress table and the canceled set stay empty.
NextSession ==
  \/ \E r \in Reqs, s \in Sessions : Accepting /\ AddRequest(r, s, NoToken, "v1")
  \/ \E r \in Reqs, s \in Sessions : Accepting /\ ClearRequest(r, s)
  \/ \E r \in Reqs, s \in Sessions : Accepting /\ RemoveRequest(r, s, 1)
  \/ \E r \in Reqs, s \in Sessions : Accepting /\ ReorderRequest(r, s, <<2, 1>>)
  \/ \E p \in DOMAIN creations : CreateSessionDone(p)
  \/ \E p \in DOMAIN creations : CreateSessionFail(p)
  \/ \E r \in Reqs : AddSpawn(r)
  \/ \E r \in Reqs : AddExitOk(r)
  \/ \E r \in Reqs : AddStatFail(r)
  \/ \E r \in Reqs : AddRegister(r)
  \/ \E r \in Reqs : FinishUnlink(r)

SpecSession == Init /\ [][NextSession]_vars

\* One session, every playlist route, and every order array of up to
\* MaxOrderLen entries over the identifiers 1..MaxOrderLen+1.
MaxOrderLen == 2
OrderInputs == UNION {[1..n -> 1..(MaxOrderLen + 1)] : n \in 0..MaxOrderLen}

NextPlaylist ==
  \/ \E r \in Reqs, v \in Videos : Accepting /\ AddRequest(r, "sA", NoToken, v)
  \/ \E r \in Reqs : Accepting /\ AddBadUrl(r, "sA")
  \/ \E r \in Reqs : Accepting /\ ListRequest(r, "sA")
  \/ \E r \in Reqs : Accepting /\ ClearRequest(r, "sA")
  \/ \E r \in Reqs, id \in 1..MaxOrderLen : Accepting /\ RemoveRequest(r, "sA", id)
  \/ \E r \in Reqs, order \in OrderInputs : Accepting /\ ReorderRequest(r, "sA", order)
  \/ \E r \in Reqs : Accepting /\ ReorderMissingOrder(r, "sA")
  \/ \E p \in DOMAIN creations : CreateSessionDone(p)
  \/ \E r \in Reqs : AddSpawn(r)
  \/ \E r \in Reqs : AddExitOk(r)
  \/ \E r \in Reqs : AddStatFail(r)
  \/ \E r \in Reqs : AddRegister(r)
  \/ \E r \in Reqs : FinishUnlink(r)

SpecPlaylist == Init /\ [][NextPlaylist]_vars

\* ------------------------------------------------------ download links
\* Conversions of one session publish links; requests of another session redeem
\* tokens, issued or not, by GET and HEAD; published files vanish or become
\* unreadable; the sweep timer fires; the clock moves by half the token TTL and
\* can outlast it.
MaxDownloadTime == 1800
DownloadTokens == 1..2

NextDownload ==
  \/ \E r \in 1..MaxAddReq : Accepting /\ ConvertRequest(r, "sA", "v1")
  \/ \E r \in Reqs, token \in DownloadTokens, head \in BOOLEAN :
       Accepting /\ DownloadRequest(r, "sB", token, head)
  \/ \E p \in DOMAIN creations : CreateSessionDone(p)
  \/ \E r \in Reqs : ConvertFail(r)
  \/ \E r \in Reqs : ConvertAccess(r)
  \/ \E r \in Reqs : ConvertRename(r)
  \/ \E r \in Reqs : ConvertPublish(r)
  \/ \E r \in Reqs : DlStatMissing(r)
  \/ \E r \in Reqs : DlStatError(r)
  \/ \E r \in Reqs : DlStatOk(r)
  \/ \E r \in Reqs : DlSendOk(r)
  \/ \E r \in Reqs : DlSendMissing(r)
  \/ \E r \in Reqs : DlSendError(r)
  \/ \E path \in files : FileVanish(path)
  \/ \E path \in files : FileBreak(path)
  \/ Sweep
  \/ Tick(DOWNLOAD_TOKEN_TTL \div 2, MaxDownloadTime)

SpecDownload == Init /\ [][NextDownload]_vars

\* ------------------------------------------------------ metadata probes
\* A getVideoMetaSmart call over MaxCandidates candidate clients, each probe
\* failing or succeeding with one of a few format lists, the probes settling
\* in any order.
MaxCandidates == 3

AudioHi == [vcodec |-> "none", acodec |-> "opus", asr |-> 48000]
AudioHiUpper == [vcodec |-> "NONE", acodec |-> "mp4a.40.2", asr |-> 44100]
AudioLo == [vcodec |-> "none", acodec |-> "mp4a.40.2", asr |-> 22050]
Muxed == [vcodec |-> "avc1", acodec |-> "mp4a.40.2", asr |-> 44100]
VideoOnly == [vcodec |-> "avc1", acodec |-> "none", asr |-> 0]
Storyboard == [vcodec |-> "none", acodec |-> "none", asr |-> 0]

ProbeFormatLists ==
  {<<>>, <<AudioHi>>, <<AudioHiUpper, VideoOnly>>, <<AudioLo, Muxed, VideoOnly>>,
   <<Storyboard, Muxed>>}

\* what a probe can resolve to: a failure (no meta), or meta with formats
ProbeOutcomes ==
  {[ok |-> FALSE, formats |-> <<>>]}
    \cup {[ok |-> TRUE, formats |-> fl] : fl \in ProbeFormatLists}

InitProbe ==
  /\ Quiet
  /\ bins = Installed
  /\ pick = NoPick
  /\ \E outcomes \in [1..MaxCandidates -> ProbeOutcomes] :
       probe = [results |-> [i \in 1..MaxCandidates |->
                               [ok |-> outcomes[i].ok, formats |-> outcomes[i].formats,
                                usedClient |-> i]],
                settled |-> <<>>, done |-> FALSE, out |-> 0]

NextProbe ==
  \/ \E i \in 1..MaxCandidates : ProbeSettle(i)
  \/ ProbeSelect

SpecProbe == InitProbe /\ [][NextProbe]_vars

\* ------------------------------------------------------- format choice
\* chooseBestFormat called twice, the clock moving in between, on every list
\* of up to MaxFormats descriptors of the pool: one without audio, one with
\* video, one of a low sample rate, and audio-only ones of every codec family
\* and bitrate.
MaxFormats == 3

PoolBase ==
  {[acodec |-> "none", vcodec |-> "none", asr |-> 48000, abr |-> 256, tbr |-> 300],
   [acodec |-> "opus", vcodec |-> "avc1", asr |-> 48000, abr |-> 256, tbr |-> 300],
   [acodec |-> "opus", vcodec |-> "none", asr |-> 22050, abr |-> 256, tbr |-> 300],
   [acodec |-> "OPUS", vcodec |-> "NONE", asr |-> 44100, abr |-> 128, tbr |-> Absent]}
    \cup [acodec : {"opus", "mp4a.40.2", "vorbis"}, vcodec : {"none"},
          asr : {44100}, abr : {Absent, 128, 256}, tbr : {Absent, 130}]

\* the lists: position i holds a pool descriptor with id i
FormatLists ==
  UNION {[1..n -> PoolBase] : n \in 0..MaxFormats}

WithIds(fl) ==
  [i \in DOMAIN fl |->
     [id |-> i, acodec |-> fl[i].acodec, vcodec |-> fl[i].vcodec,
      asr |-> fl[i].asr, abr |-> fl[i].abr, tbr |-> fl[i].tbr]]

InitChoose ==
  /\ Quiet
  /\ bins = Installed
  /\ probe = NoProbe
  /\ \E fl \in FormatLists :
       pick = [formats |-> WithIds(fl), calls |-> 0, out |-> <<>>, again |-> <<>>]

NextChoose ==
  \/ ChooseCall
  \/ Tick(CANCELED_TOKEN_TTL, MaxTime)

SpecChoose == InitChoose /\ [][NextChoose]_vars

\* ----------------------------------------------------- session identity
\* Requests with every combination of cookie and hint: an identifier of a
\* client, one the server minted, a malformed one, or none; the context
\* creations succeed or fail.
RawIds == Sessions \cup {"n1", "bad id", NoSid}

NextIdentity ==
  \/ \E r \in Reqs, cookie \in RawIds, hint \in RawIds :
       Accepting /\ HintedRequest(r, cookie, hint)
  \/ \E p \in DOMAIN creations : CreateSessionDone(p)
  \/ \E p \in DOMAIN creations : CreateSessionFail(p)

SpecIdentity == Init /\ [][NextIdentity]_vars

\* ------------------------------------------------------- the idle sweep
\* Adds and converts of one session, and the interval callback with the two
\* awaits of each destroySessionContext it starts; the clock moves by the
\* idle TTL, so that a context goes stale, also under a job that is running.
MaxSweepTime == 43200

NextSweep ==
  \/ \E r \in Reqs : Accepting /\ AddRequest(r, "sA", NoToken, "v1")
  \/ \E r \in Reqs : Accepting /\ ConvertRequest(r, "sA", "v1")
  \/ \E p \in DOMAIN creations : CreateSessionDone(p)
  \/ \E r \in Reqs : AddSpawn(r)
  \/ \E r \in Reqs : AddExitOk(r)
  \/ \E r \in Reqs : AddRegister(r)
  \/ \E r \in Reqs : ConvertAccess(r)
  \/ \E r \in Reqs : ConvertRename(r)
  \/ \E r \in Reqs : ConvertPublish(r)
  \/ Sweep
  \/ \E c \in DOMAIN destroys : DestroyUnlinked(c)
  \/ \E c \in DOMAIN destroys : DestroyRemoved(c)
  \/ Tick(SESSION_COOKIE_MAX_AGE, MaxSweepTime)

SpecSweep == Init /\ [][NextSweep]_vars

\* --------------------------------------------- adds and the external tools
\* The add protocol when start-up found, or did not find, ffmpeg and yt-dlp;
\* session creations succeed or fail.
InitTools ==
  /\ Quiet
  /\ probe = NoProbe
  /\ pick = NoPick
  /\ bins \in [ff : BOOLEAN, yd : BOOLEAN]

NextTools ==
  \/ \E r \in 1..MaxAddReq : AddRequest(r, "sA", "t1", "v1")
  \/ \E r \in 1..MaxAddReq : AddBadUrl(r, "sA")
  \/ \E p \in DOMAIN creations : CreateSessionDone(p)
  \/ \E p \in DOMAIN creations : CreateSessionFail(p)
  \/ \E r \in Reqs : AddMetaThrow(r)
  \/ \E r \in Reqs : AddMetaFail(r)
  \/ \E r \in Reqs : AddCanceledBeforeStart(r)
  \/ \E r \in Reqs : AddSpawn(r)
  \/ \E r \in Reqs : AddOutput(r, 50, FALSE)
  \/ \E r \in Reqs : AddExitFail(r)
  \/ \E r \in Reqs : AddExitNoPath(r)
  \/ \E r \in Reqs : AddExitOk(r)
  \/ \E r \in Reqs : AddStatFail(r)
  \/ \E r \in Reqs : AddCanceledAfterRun(r)
  \/ \E r \in Reqs : AddRegister(r)
  \/ \E r \in Reqs : FinishUnlink(r)
  \/ CancelAdd("t1")

SpecTools == InitTools /\ [][NextTools]_vars

\* ------------------------------------------------------ adds that fail
\* Add requests of one session whose job fails to start, exits nonzero,
\* prints no path, or writes a file that cannot be stat-ed, next to adds
\* that succeed.
NextFailure ==
  \/ \E r \in 1..MaxAddReq, v \in Videos : AddRequest(r, "sA", "t1", v)
  \/ \E p \in DOMAIN creations : CreateSessionDone(p)
  \/ \E r \in Reqs : AddSpawn(r)
  \/ \E r \in Reqs : AddExitFail(r)
  \/ \E r \in Reqs : AddExitNoPath(r)
  \/ \E r \in Reqs : AddExitOk(r)
  \/ \E path \in files : TrackFileBreak(path)
  \/ \E r \in Reqs : AddStatFail(r)
  \/ \E r \in Reqs : AddRegister(r)
  \/ \E r \in Reqs : FinishUnlink(r)

SpecFailure == Init /\ [][NextFailure]_vars

\* ------------------------------------------- expiry of progress entries
\* Adds that share a token, polls, and a clock that moves by the TTL of a
\* done entry (in the first seconds) or by the TTL of an active one.
MaxExpiryTime == 320
MaxFineTime == 20

NextExpiry ==
  \/ \E r \in 1..MaxAddReq : AddRequest(r, "sA", "t1", "v1")
  \/ \E p \in DOMAIN creations : CreateSessionDone(p)
  \/ \E r \in Reqs : AddSpawn(r)
  \/ \E r \in Reqs : AddOutput(r, 50, FALSE)
  \/ \E r \in Reqs : AddExitFail(r)
  \/ \E r \in Reqs : AddExitOk(r)
  \/ \E r \in Reqs : AddRegister(r)
  \/ \E r \in Reqs : PollProgress(r, "t1")
  \/ Tick(ADD_PROGRESS_DONE_TTL, MaxFineTime)
  \/ Tick(ADD_PROGRESS_ACTIVE_TTL, MaxExpiryTime)

SpecExpiry == Init /\ [][NextExpiry]_vars

\* ----------------------------------------- what the polls of one add see
\* One add request, cancels of its token and polls of its token, with a job
\* that fails, or succeeds with a file that may not be readable.
NextObserve ==
  \/ AddRequest(1, "sA", "t1", "v1")
  \/ \E p \in DOMAIN creations : CreateSessionDone(p)
  \/ \E r \in Reqs : AddCanceledBeforeStart(r)
  \/ \E r \in Reqs : AddSpawn(r)
  \/ \E r \in Reqs : AddOutput(r, 50, FALSE)
  \/ \E r \in Reqs : AddExitFail(r)
  \/ \E r \in Reqs : AddExitOk(r)
  \/ \E path \in files : TrackFileBreak(path)
  \/ \E r \in Reqs : AddStatFail(r)
  \/ \E r \in Reqs : AddCanceledAfterRun(r)
  \/ \E r \in Reqs : AddRegister(r)
  \/ \E r \in Reqs : FinishUnlink(r)
  \/ CancelAdd("t1")
  \/ \E r \in Reqs : PollProgress(r, "t1")

SpecObserve == Init /\ [][NextObserve]_vars

\* --------------------------------------------------- the idle window
\* Requests of one session that use its context (list) or not (probe), the
\* sweep timer, and a clock that moves by half the idle TTL.
NextIdle ==
  \/ \E r \in Reqs : ListRequest(r, "sA")
  \/ \E r \in Reqs, ok \in BOOLEAN : ProbeRequest(r, "sA", ok)
  \/ \E p \in DOMAIN creations : CreateSessionDone(p)
  \/ Sweep
  \/ \E c \in DOMAIN destroys : DestroyUnlinked(c)
  \/ \E c \in DOMAIN destroys : DestroyRemoved(c)
  \/ Tick(SESSION_COOKIE_MAX_AGE \div 2, MaxSweepTime)

SpecIdle == Init /\ [][NextIdle]_vars

\* ================================================================ claims
Playlists == [c \in DOMAIN ctxs |-> ctxs[c].playlist]

\* the tracks of all playlists
AllTracks == UNION {Range(ctxs[c].playlist) : c \in DOMAIN ctxs}

\* token t has an entry in the canceled set that has not expired
TokenCanceled(t) ==
  t \in DOMAIN canceledAddTokens /\ canceledAddTokens[t] > now

\* C1: a canceled add never appears in the playlist: no playlist of any
\* session holds a track produced by an add request for whose token a cancel
\* was recorded between the receipt of the request and the end of its job.
C1_CanceledAddNeverListed ==
  \A tr \in AllTracks : ~tr.afterCancel

\* C2: an add request that reaches its pre-start check while its token is in
\* the canceled set answers "canceled" without spawning the subprocess, and
\* from then on no playlist holds a track of that request.
C2_CanceledBeforeStart ==
  /\ [][\A r \in Reqs :
          (/\ req[r].route = "add" /\ req[r].pc = "meta"
           /\ req'[r].pc # "meta" /\ req'[r].status # 400
           /\ TokenCanceled(req[r].token))
          => (/\ req'[r].pc = "done" /\ req'[r].status = 200
              /\ req'[r].canceled /\ ~req'[r].spawned
              /\ Playlists' = Playlists)]_vars
  /\ [](\A r \in Reqs :
          (req[r].pc = "done" /\ req[r].canceled /\ ~req[r].spawned)
          => \A tr \in AllTracks : tr.by # r)

C2_Witness ==
  \E r \in Reqs : /\ req[r].route = "add" /\ req[r].pc = "done"
                  /\ req[r].canceled /\ ~req[r].spawned

\* C3: when the job has exited with code zero and the token is in the canceled
\* set at the post-completion check, the request turns to the canceled outcome
\* without touching any playlist, and when it answers, the answer is "canceled"
\* and the file it produced is gone.
C3_CancelWinsOverLateSuccess ==
  /\ [][\A r \in Reqs :
          (/\ req[r].route = "add" /\ req[r].pc = "stat" /\ req'[r].pc # "stat"
           /\ StatOk(req[r].file) /\ TokenCanceled(req[r].token))
          => (/\ req'[r].pc = "unlink" /\ req'[r].canceled
              /\ req'[r].unlinking = {req[r].file}
              /\ req'[r].item = 0
              /\ Playlists' = Playlists)]_vars
  /\ [][\A r \in Reqs :
          (/\ req[r].route = "add" /\ req[r].pc = "unlink" /\ req[r].canceled
           /\ req'[r].pc # "unlink")
          => (/\ \E m \in sent' : /\ m.slot = r /\ m.status = 200
                                  /\ m.canceled /\ m.item = 0
              /\ req[r].file \notin files'
              /\ Playlists' = Playlists)]_vars

C3_Witness ==
  \E m \in sent : /\ m.route = "add" /\ m.status = 200
                  /\ m.canceled /\ m.spawned
                  /\ m.file # NoFile /\ m.file \notin files

\* C4: while done=false the percentage recorded for a token never goes below
\* the one the table held for it: whenever a step leaves an entry with
\* done=false for a token that had an unexpired entry, the new value is at
\* least the old one.
C4_ProgressNeverDecreases ==
  [][\A t \in Tokens :
       (/\ t \in DOMAIN addProgressMap /\ addProgressMap[t].expiresAt > now
        /\ t \in DOMAIN addProgressMap' /\ ~addProgressMap'[t].done)
       => addProgressMap'[t].value >= addProgressMap[t].value]_vars

\* an out-of-order line was absorbed: the last line fed for the token said 30
\* and the table, not done, still holds 50
C4_Witness ==
  \E r \in Reqs :
    /\ req[r].pc = "running" /\ req[r].fed = 30
    /\ req[r].token \in DOMAIN addProgressMap
    /\ ~addProgressMap[req[r].token].done
    /\ addProgressMap[req[r].token].value = 50

\* the playlist context c held before a step (a context not yet stored holds
\* none)
OldItems(c) == IF c \in DOMAIN ctxs THEN ctxs[c].playlist ELSE <<>>

\* the responses sent by the step itself
NewlySent == {m \in sent' : req[m.slot].pc # "done"}

\* C5: exactly-once session creation: no identifier ever has two creations;
\* the requests awaiting a context for one identifier all await that single
\* creation; and when it completes, every one of them gets the one context
\* that is stored for the identifier.
C5_ExactlyOnceSessionCreation ==
  /\ [](\A p, q \in DOMAIN creations :
          creations[p].sid = creations[q].sid => p = q)
  /\ [](\A r \in Reqs :
          req[r].pc = "awaitCtx"
          => /\ req[r].awaited \in DOMAIN creations
             /\ creations[req[r].awaited].sid = req[r].sid
             /\ creations[req[r].awaited].state = "pending"
             /\ req[r].sid \notin DOMAIN sessionContexts)
  /\ [][\A r \in Reqs :
          (req[r].pc = "awaitCtx" /\ req'[r] # req[r] /\ req'[r].status # 500)
          => LET m == IF req'[r].pc = "done"
                      THEN CHOOSE x \in sent' : x.slot = r ELSE req'[r]
             IN /\ m.ctx = req[r].awaited
                /\ req[r].sid \in DOMAIN sessionContexts'
                /\ sessionContexts'[req[r].sid] = m.ctx
                /\ ctxs'[m.ctx].id = req[r].sid]_vars

\* two requests that awaited the same creation are being handled with the
\* same context
C5_Witness ==
  \E r, q \in Reqs :
    /\ r # q
    /\ req[r].awaited # 0 /\ req[r].awaited = req[q].awaited
    /\ req[r].ctx # 0 /\ req[r].ctx = req[q].ctx
    /\ Cardinality(DOMAIN creations) = 1

\* C6: session isolation: a step that changes the playlist of a context is the
\* step of one handler, that handler runs under the identifier of that
\* context, and the playlist of every other context is unchanged by it.
C6_SessionIsolation ==
  [][\A c \in DOMAIN ctxs :
       ctxs'[c].playlist # ctxs[c].playlist
       => /\ \E r \in Reqs :
               /\ req'[r] # req[r]
               /\ \A q \in Reqs \ {r} : req'[q] = req[q]
               /\ LET m == IF req'[r].pc = "done"
                           THEN CHOOSE x \in sent' : x.slot = r ELSE req'[r]
                  IN m.ctx = c /\ m.sid = ctxs[c].id
          /\ \A d \in DOMAIN ctxs \ {c} : ctxs'[d].playlist = ctxs[d].playlist]_vars

\* a reorder was applied in one session while another session holds tracks
C6_Witness ==
  \E m \in sent :
    /\ m.route = "reorder" /\ m.status = 200 /\ Len(m.arg) = 2
    /\ \E d \in DOMAIN ctxs :
         /\ d # m.ctx /\ ctxs[d].id # m.sid
         /\ Len(ctxs[d].playlist) = 1

\* order lists every identifier of items exactly once and nothing else
IsPermutationOfIds(order, items) ==
  /\ Len(order) = Len(items)
  /\ \A i \in DOMAIN items :
       Cardinality({j \in DOMAIN order : order[j] = items[i].id}) = 1

\* C7: a reorder request succeeds if and only if its list is a permutation of
\* the identifiers of the current tracks; on success the playlist is in the
\* order of the list and holds the same tracks; on rejection the playlist is
\* what it was.
C7_ReorderIffPermutation ==
  [][\A m \in NewlySent :
       (m.route = "reorder" /\ m.status # 500)
       => IF ~m.valid
          THEN m.status = 400 /\ Playlists' = Playlists
          ELSE LET old == OldItems(m.ctx)
                   new == ctxs'[m.ctx].playlist
               IN /\ m.status \in {200, 400}
                  /\ (m.status = 200) <=> IsPermutationOfIds(m.arg, old)
                  /\ (m.status = 200)
                     => /\ [i \in DOMAIN new |-> new[i].id] = m.arg
                        /\ Range(new) = Range(old)
                  /\ (m.status = 400) => new = old]_vars

\* a list that swaps two tracks was accepted and the playlist is in its order
C7_Witness ==
  \E m \in sent :
    /\ m.route = "reorder" /\ m.status = 200
    /\ Len(m.arg) = 2 /\ m.arg[1] > m.arg[2]
    /\ [i \in DOMAIN ctxs[m.ctx].playlist |-> ctxs[m.ctx].playlist[i].id] = m.arg

\* C8: when the clear handler runs on a playlist, the playlist is empty and
\* its totalSeconds is 0 afterwards and the handler goes on to unlink the file
\* of every track that was in it; when its unlinks have returned none of these
\* files exists and the request answers ok.
C8_ClearUnlinksAll ==
  /\ [][\A r \in Reqs :
          (req'[r].route = "clear" /\ req'[r].pc = "unlink" /\ req[r].pc # "unlink")
          => LET c == req'[r].ctx
                 old == OldItems(c)
             IN /\ ctxs'[c].playlist = <<>>
                /\ totalSeconds(ctxs'[c].playlist) = 0
                /\ req'[r].unlinking = {old[i].filepath : i \in DOMAIN old}]_vars
  /\ [][\A r \in Reqs :
          (req[r].route = "clear" /\ req[r].pc = "unlink" /\ req'[r].pc # "unlink")
          => /\ \A f \in req[r].unlinking : f \notin files'
             /\ \E m \in sent' : m.slot = r /\ m.status = 200]_vars

\* a clear of two tracks with two files has answered, and both files are gone
C8_Witness ==
  \E m \in sent :
    /\ m.route = "clear" /\ m.status = 200
    /\ Cardinality(m.unlinking) = 2
    /\ m.unlinking \cap files = {}
    /\ ctxs[m.ctx].playlist = <<>>

\* no context holds token in its token set
InNoTokenSet(token) == \A c \in DOMAIN ctxs : token \notin ctxs[c].downloadTokens

\* C9: a redemption that finds the file of its token gone answers 404, and
\* after it the token is in neither the index nor the token set of any
\* session.
C9_VanishedFileDropsToken ==
  [][\A m \in NewlySent :
       (m.route = "download" /\ m.file # NoFile /\ m.file \notin files)
       => /\ m.status = 404
          /\ m.arg[1] \notin DOMAIN downloadTokenIndex'
          /\ \A c \in DOMAIN ctxs' : m.arg[1] \notin ctxs'[c].downloadTokens]_vars

\* a redemption of an issued token has answered 404 for a file that is gone,
\* and the token is in neither the index nor a session's set
C9_Witness ==
  \E m \in sent :
    /\ m.route = "download" /\ m.status = 404
    /\ m.file # NoFile /\ m.file \notin files
    /\ m.sid \in DOMAIN sessionContexts
    /\ m.arg[1] \notin DOMAIN downloadTokenIndex
    /\ InNoTokenSet(m.arg[1])

\* C10: a redemption that fails answers 404: no response to a download
\* request carries a status other than 200 and 404.
C10_DownloadFailureIs404 ==
  \A m \in sent : m.route = "download" => m.status \in {200, 404}

\* request r is received by this step, as a redemption
Redeems(r) == req[r].pc = "idle" /\ req'[r].pc # "idle" /\ req'[r].route = "download"

\* the token request r redeems (read after its receipt)
TokenOf(r) ==
  IF req'[r].pc = "done" THEN (CHOOSE m \in sent' : m.slot = r).arg[1]
  ELSE req'[r].arg[1]

\* token has an entry whose expiry has not passed
TokenLive(token) ==
  token \in DOMAIN downloadTokenIndex /\ downloadTokenIndex[token].expiresAt > now

\* C11: the life of a download token.  (1) A redemption that finds its file,
\* its token still in the index, sets the token's expiry to a full TTL from
\* now, never earlier than it was.  (2) When a GET transfer completes the token
\* leaves the index.  (3) A redemption received for a token that is not in the
\* index or whose expiry has passed answers 404 at once (it is not served) and
\* leaves the token out of the index.  (4) After any redemption attempt and
\* after any sweep the index holds no token whose expiry has passed.
C11_DownloadTokenLifecycle ==
  /\ [][\A r \in Reqs :
          (/\ req[r].route = "download" /\ req[r].pc = "dlstat"
           /\ req'[r].pc # "dlstat" /\ StatOk(req[r].file)
           /\ req[r].arg[1] \in DOMAIN downloadTokenIndex)
          => /\ req[r].arg[1] \in DOMAIN downloadTokenIndex'
             /\ downloadTokenIndex'[req[r].arg[1]].expiresAt = now + DOWNLOAD_TOKEN_TTL
             /\ downloadTokenIndex'[req[r].arg[1]].expiresAt
                  >= downloadTokenIndex[req[r].arg[1]].expiresAt]_vars
  /\ [][\A m \in NewlySent :
          (m.route = "download" /\ ~m.head /\ m.status = 200)
          => m.arg[1] \notin DOMAIN downloadTokenIndex']_vars
  /\ [][\A r \in Reqs :
          (Redeems(r) /\ ~TokenLive(TokenOf(r)))
          => /\ \E m \in sent' : m.slot = r /\ m.status = 404
             /\ TokenOf(r) \notin DOMAIN downloadTokenIndex']_vars
  /\ [][((\E r \in Reqs : Redeems(r)) \/ Sweep)
          => \A token \in DOMAIN downloadTokenIndex' :
               downloadTokenIndex'[token].expiresAt > now]_vars

\* a HEAD redemption made after time has passed has answered 200 and its
\* token's expiry is a full TTL from now
C11_Witness ==
  \E m \in sent :
    /\ m.route = "download" /\ m.head /\ m.status = 200
    /\ now > 0
    /\ m.arg[1] \in DOMAIN downloadTokenIndex
    /\ downloadTokenIndex[m.arg[1]].expiresAt = now + DOWNLOAD_TOKEN_TTL

\* format f is audio-only with a sample rate of at least 44100
IsAudioOnlyHi(f) ==
  /\ f.vcodec \in {"none", "NONE"}
  /\ f.acodec # "none" /\ f.acodec # ""
  /\ f.asr >= 44100

\* result r meets the bar: successful, with an audio-only format >= 44100
MeetsBar(r) == r.ok /\ \E k \in DOMAIN r.formats : IsAudioOnlyHi(r.formats[k])

\* C12: the selection is made only when every probe has settled, and the
\* result returned is (1) the first result in list order that meets the bar;
\* (2) else, if some result is successful, a successful one with the most
\* formats; (3) else the first result of the list; whatever the order in
\* which the probes settled.
C12_SmartProbeSelection ==
  probe.done
  => LET rs == probe.results
         bar == {i \in DOMAIN rs : MeetsBar(rs[i])}
         oks == {i \in DOMAIN rs : rs[i].ok}
     IN /\ Len(probe.settled) = Len(rs)
        /\ bar # {} => /\ probe.out \in {rs[i] : i \in bar}
                       /\ \A i \in bar : probe.out.usedClient <= i
        /\ (bar = {} /\ oks # {})
             => /\ probe.out \in {rs[i] : i \in oks}
                /\ \A i \in oks : Len(rs[i].formats) <= Len(probe.out.formats)
        /\ oks = {} => probe.out = rs[1]

\* three candidates of which only the second succeeds and meets the bar, the
\* first having settled first: the second is returned
C12_Witness ==
  /\ probe.done
  /\ Len(probe.results) = 3
  /\ ~probe.results[1].ok /\ ~probe.results[3].ok
  /\ MeetsBar(probe.results[2])
  /\ probe.settled[1] = 1
  /\ probe.out = probe.results[2]


\* ---- chooseBestFormat: what the claims say of a call, told of the list
\* the entries of the list that have a real audio codec, are audio-only and
\* have a sample rate of 44100 or more
Qualifies(f) ==
  /\ ToLower(f.acodec) \notin {"", "none"}
  /\ ToLower(f.vcodec) = "none"
  /\ f.asr # Absent /\ f.asr >= 44100

Qualifying == {i \in DOMAIN pick.formats : Qualifies(pick.formats[i])}

FamilyOf(f) ==
  IF ToLower(f.acodec) = "opus" THEN "opus"
  ELSE IF ToLower(f.acodec) \in {"aac", "mp4a.40.2"} THEN "aac"
  ELSE "other"

\* the average bitrate, the total one standing in for an absent average
AverageOf(f) == IF f.abr # Absent THEN f.abr ELSE IF f.tbr # Absent THEN f.tbr ELSE 0
TotalOf(f) == IF f.tbr # Absent THEN f.tbr ELSE 0

NotBelow(f, g) ==
  \/ AverageOf(f) > AverageOf(g)
  \/ AverageOf(f) = AverageOf(g) /\ TotalOf(f) >= TotalOf(g)

OfFamily(fam) == {i \in Qualifying : FamilyOf(pick.formats[i]) = fam}

PreferredTier ==
  IF OfFamily("opus") # {} THEN OfFamily("opus")
  ELSE IF OfFamily("aac") # {} THEN OfFamily("aac")
  ELSE Qualifying

C14_CodecFamilyBeatsBitrate ==
  (pick.calls >= 1 /\ Qualifying # {}) =>
    /\ pick.out # <<>>
    /\ pick.out[1].id \in PreferredTier
    /\ \A j \in PreferredTier :
         NotBelow(pick.formats[pick.out[1].id], pick.formats[j])

C14_Witness ==
  /\ pick.calls >= 1
  /\ pick.out # <<>>
  /\ FamilyOf(pick.formats[pick.out[1].id]) = "opus"
  /\ AverageOf(pick.formats[pick.out[1].id]) = 128
  /\ \E j \in OfFamily("aac") : AverageOf(pick.formats[j]) = 256

C16_TerminalCleanup ==
  [][\A m \in NewlySent :
       (m.route = "add" /\ m.token # NoToken)
       => ~(/\ m.token \in DOMAIN canceledAddTokens'
            /\ canceledAddTokens'[m.token] > now')]_vars

\* C17: a progress poll always answers 200: with the value and the done flag
\* last recorded for the token when the table holds an unexpired entry for
\* it, with {progress: null, done: false} otherwise; it changes the value and
\* the flag of no unexpired entry, so that the same poll made again at once
\* would get the same answer.
C17_PollIsARead ==
  [][\A m \in NewlySent :
       m.route = "progress" =>
         LET Live(t) == t \in DOMAIN addProgressMap /\ addProgressMap[t].expiresAt > now
             LiveAfter(t) == t \in DOMAIN addProgressMap' /\ addProgressMap'[t].expiresAt > now'
         IN /\ m.status = 200
            /\ Live(m.token) => /\ m.progress = addProgressMap[m.token].value
                                /\ m.done = addProgressMap[m.token].done
            /\ ~Live(m.token) => /\ m.progress = NoProgress
                                 /\ m.done = FALSE
            /\ \A t \in Tokens :
                 /\ Live(t) => /\ LiveAfter(t)
                               /\ addProgressMap'[t].value = addProgressMap[t].value
                               /\ addProgressMap'[t].done = addProgressMap[t].done
                 /\ LiveAfter(t) => Live(t)]_vars

C17_Witness ==
  \E m \in sent :
    /\ m.route = "progress" /\ m.progress = 50 /\ ~m.done
    /\ \E r \in Reqs : r # m.slot /\ req[r].route = "progress" /\ req[r].pc = "done"

\* ---- session identity: the request that arrives in a step, as received
Arrives(r) == req[r].pc = "idle" /\ req'[r].pc # "idle"

ArrivedRec(r) ==
  IF req'[r].pc = "done" THEN CHOOSE m \in sent' : m.slot = r ELSE req'[r]

LiveContext(s) == s \in DOMAIN sessionContexts

BeingCreated(s) ==
  /\ s \in DOMAIN sessionCreationPromises
  /\ creations[sessionCreationPromises[s]].state = "pending"

\* C18: a known hint wins: a request whose well-formed hint names a context
\* that is live or being created is resolved to the hint, whatever cookie it
\* carries.
C18_KnownHintWins ==
  [][\A r \in Reqs :
       (/\ Arrives(r)
        /\ ArrivedRec(r).hint \in WellFormedIds
        /\ (LiveContext(ArrivedRec(r).hint) \/ BeingCreated(ArrivedRec(r).hint)))
       => ArrivedRec(r).sid = ArrivedRec(r).hint]_vars

\* a request with the cookie of one session and the hint of another, whose
\* context is being created, waits for that creation
C18_Witness ==
  \E r \in Reqs :
    /\ req[r].pc = "awaitCtx"
    /\ req[r].cookie = "sA" /\ req[r].hint = "sB" /\ req[r].sid = "sB"
    /\ \E k \in Reqs : k < r /\ req[k].pc = "awaitCtx" /\ req[k].awaited = req[r].awaited

\* C19: an unknown hint never overrides a cookie: a request with a
\* well-formed cookie and a hint that names no live context and no context
\* being created is resolved to the cookie.
C19_UnknownHintIgnored ==
  [][\A r \in Reqs :
       (/\ Arrives(r)
        /\ ArrivedRec(r).cookie \in WellFormedIds
        /\ ~LiveContext(ArrivedRec(r).hint)
        /\ ~BeingCreated(ArrivedRec(r).hint))
       => ArrivedRec(r).sid = ArrivedRec(r).cookie]_vars

\* C20, as stated: a hint is adopted only when it is known; a request with
\* no valid cookie and a hint that names no known context gets a minted
\* identifier, not the hint.
C20_UnknownHintNeverAdopted ==
  [][\A r \in Reqs :
       (/\ Arrives(r)
        /\ ArrivedRec(r).cookie \notin WellFormedIds
        /\ ArrivedRec(r).hint \in WellFormedIds
        /\ ~headerKnown(ArrivedRec(r).hint))
       => (/\ ArrivedRec(r).sid \in MintIds
           /\ ArrivedRec(r).sid # ArrivedRec(r).hint)]_vars

\* C20, amended: a request with no valid cookie and a well-formed hint is
\* resolved to the hint, known or not; an identifier is minted only for a
\* request with neither; and a hint replaces a different valid cookie only
\* when it is in the context map or the creation map.
C20_HintAdoptedWithoutCookie ==
  [][\A r \in Reqs :
       Arrives(r) =>
         /\ (/\ ArrivedRec(r).cookie \notin WellFormedIds
             /\ ArrivedRec(r).hint \in WellFormedIds)
            => ArrivedRec(r).sid = ArrivedRec(r).hint
         /\ (/\ ArrivedRec(r).cookie \notin WellFormedIds
             /\ ArrivedRec(r).hint \notin WellFormedIds)
            <=> (/\ ArrivedRec(r).sid \in MintIds
                 /\ ArrivedRec(r).sid \notin {ArrivedRec(r).cookie, ArrivedRec(r).hint})
         /\ (/\ ArrivedRec(r).cookie \in WellFormedIds
             /\ ArrivedRec(r).hint \in WellFormedIds
             /\ ArrivedRec(r).hint # ArrivedRec(r).cookie
             /\ ArrivedRec(r).sid = ArrivedRec(r).hint)
            => headerKnown(ArrivedRec(r).hint)]_vars

\* a request with a malformed cookie and the hint of a session nobody knows
\* has started the creation of that session's context
C20_Witness ==
  \E r \in Reqs :
    /\ req[r].pc = "awaitCtx"
    /\ req[r].cookie = "bad id" /\ req[r].hint = "sA" /\ req[r].sid = "sA"
    /\ \A k \in Reqs : k < r => req[k].sid # "sA"

\* C21: the resolved identifier is echoed back: every response carries a
\* session cookie (the last one set) and an X-CD-Session header that name the
\* identifier under which the request was handled, a download redemption
\* bound to the token's owner included.
C21_IdentifierEchoed ==
  [][\A m \in NewlySent :
       /\ m.setCookies # <<>>
       /\ m.setCookies[Len(m.setCookies)] = m.sid
       /\ m.xSession = m.sid]_vars

\* a redemption by another session was answered 200 under the owner's
\* identifier
C21_Witness ==
  \E m \in sent :
    /\ m.route = "download" /\ m.status = 200
    /\ m.sid = "sA" /\ m.setCookies = <<"sB", "sA">> /\ m.xSession = "sA"

C23_AddAlwaysAnswers ==
  /\ [](\A r \in Reqs : req[r].route = "add" => req[r].pc # "escaped")
  /\ [][\A m \in NewlySent :
          m.route = "add" =>
            /\ ~m.uncaught
            /\ \/ m.status = 200 /\ ~m.canceled /\ m.item # 0
               \/ m.status = 200 /\ m.canceled /\ m.item = 0
               \/ m.status \in {400, 500} /\ m.item = 0]_vars

RECURSIVE SumUpTo(_, _)
SumUpTo(items, n) == IF n = 0 THEN 0 ELSE SumUpTo(items, n - 1) + items[n].duration

\* C24: capacity is advisory: an add whose file is there (and whose token is
\* not canceled) registers its track whatever the playlist already holds: the
\* playlist becomes the old one with the new track at its end, and the
\* totalSeconds it reports is the sum of the durations of the items, be it
\* above capSeconds.
C24_CapacityAdvisory ==
  [][\A r \in Reqs :
       (/\ req[r].route = "add" /\ req[r].pc = "stat" /\ req'[r].pc # "stat"
        /\ StatOk(req[r].file) /\ ~TokenCanceled(req[r].token))
       => \E m \in sent' :
            LET old == ctxs[req[r].ctx].playlist
                new == ctxs'[req[r].ctx].playlist
            IN /\ m.slot = r /\ m.status = 200 /\ m.item # 0
               /\ Len(new) = Len(old) + 1
               /\ SubSeq(new, 1, Len(old)) = old
               /\ new[Len(new)].id = m.item
               /\ new[Len(new)].duration = DurationOf(req[r].video)
               /\ m.total = SumUpTo(new, Len(new))]_vars

\* an add was registered into a playlist that now runs beyond the capacity
C24_Witness ==
  \E m \in sent :
    /\ m.route = "add" /\ m.status = 200 /\ m.item # 0
    /\ m.total > capSeconds
    /\ m.total = SumUpTo(ctxs[m.ctx].playlist, Len(ctxs[m.ctx].playlist))

\* C25: an entry of the progress table that is not done holds at most 99, and
\* a chunk of output that names a terminal phase leaves exactly 99 for the
\* token of its job, whatever was read before.
C25_RunningAtMost99 ==
  /\ [](\A t \in DOMAIN addProgressMap :
          ~addProgressMap[t].done => addProgressMap[t].value <= 99)
  /\ [][\A r \in Reqs :
          (/\ req[r].pc = "running" /\ req'[r].pc = "running"
           /\ req'[r] # req[r] /\ req'[r].marked)
          => (/\ req[r].token \in DOMAIN addProgressMap'
              /\ addProgressMap'[req[r].token].value = 99
              /\ ~addProgressMap'[req[r].token].done)]_vars

\* C26: when an add request that carries a token starts its job, the table
\* holds percentage 0, not done, for the token, whatever it held before.
C26_RequestedAtZero ==
  [][\A r \in Reqs :
       (/\ req[r].route = "add" /\ req[r].pc = "meta" /\ req'[r].pc = "running"
        /\ req[r].token # NoToken)
       => (/\ req[r].token \in DOMAIN addProgressMap'
           /\ addProgressMap'[req[r].token].value = 0
           /\ ~addProgressMap'[req[r].token].done)]_vars

\* C27: when an add request that carries a token sends its response, the
\* table holds a done entry for the token: at 100 exactly when the request
\* registered a track, and at 0 when it ended canceled or failed.
C27_TerminalProgressMatchesOutcome ==
  [][\A m \in NewlySent :
       (m.route = "add" /\ m.token # NoToken)
       => (/\ m.token \in DOMAIN addProgressMap'
           /\ addProgressMap'[m.token].done
           /\ (addProgressMap'[m.token].value = 100) <=> (m.item # 0)
           /\ (m.canceled \/ m.status >= 400)
                => addProgressMap'[m.token].value = 0)]_vars

\* C28: a failed add leaves the playlist unchanged: when an add request whose
\* job was spawned answers without a track and without being canceled, its
\* answer is the error response, no playlist changes in the step, no track
\* of any playlist was produced by the request, and the output path it
\* recovered, if any, names no file.
C28_FailedAddLeavesPlaylist ==
  [][\A m \in NewlySent :
       (m.route = "add" /\ m.spawned /\ m.item = 0 /\ ~m.canceled)
       => (/\ m.status = 500
           /\ Playlists' = Playlists
           /\ \A tr \in AllTracks' : tr.by # m.slot
           /\ m.file # NoFile => m.file \notin files')]_vars

\* a request whose output file could not be stat-ed has answered 500; the
\* file is unlinked and the playlist holds no track of the request
C28_Witness ==
  \E m \in sent :
    /\ m.route = "add" /\ m.spawned /\ m.status = 500
    /\ m.file # NoFile /\ m.file \notin files
    /\ \A tr \in AllTracks : tr.by # m.slot


\* C29: progress entries expire.  An entry written in a step expires the
\* done-TTL after the step if it is done and the active-TTL after it if not;
\* a poll returns an entry only if the table held it with its expiry still
\* ahead; an access that changes the table leaves no entry whose expiry has
\* passed; and a request that starts on an expired entry starts from 0.
C29_ProgressEntriesExpire ==
  [][/\ \A t \in DOMAIN addProgressMap' :
          (t \notin DOMAIN addProgressMap \/ addProgressMap'[t] # addProgressMap[t])
          => addProgressMap'[t].expiresAt =
               now + (IF addProgressMap'[t].done THEN ADD_PROGRESS_DONE_TTL
                                                 ELSE ADD_PROGRESS_ACTIVE_TTL)
     /\ \A m \in NewlySent :
          (m.route = "progress" /\ m.progress # NoProgress)
          => (/\ m.token \in DOMAIN addProgressMap
              /\ addProgressMap[m.token].expiresAt > now
              /\ m.progress = addProgressMap[m.token].value
              /\ m.done = addProgressMap[m.token].done)
     /\ addProgressMap' # addProgressMap
          => \A t \in DOMAIN addProgressMap' : addProgressMap'[t].expiresAt > now
     /\ \A r \in Reqs :
          (/\ req[r].route = "add" /\ req[r].pc = "meta" /\ req'[r].pc = "running"
           /\ req[r].token \in DOMAIN addProgressMap
           /\ addProgressMap[req[r].token].expiresAt <= now)
          => addProgressMap'[req[r].token].value = 0]_vars

\* an add has ended, which left a done entry; the done-TTL later, and long
\* before the active-TTL, a poll of its token finds no entry
C29_Witness ==
  /\ now >= ADD_PROGRESS_DONE_TTL /\ now < ADD_PROGRESS_ACTIVE_TTL
  /\ \E r \in Reqs : req[r].route = "add" /\ req[r].pc = "done" /\ req[r].spawned
  /\ \E m \in sent : m.route = "progress" /\ m.token = "t1" /\ m.progress = NoProgress


\* the remove handler runs in the step, up to its unlink or to its answer
RemoveRuns(r) ==
  /\ req[r].pc \in {"idle", "awaitCtx"}
  /\ req'[r].pc \in {"unlink", "done"}
  /\ req'[r].route = "remove"

\* C30: when the remove handler runs for an id that the playlist holds, the
\* playlist loses exactly the track of that id, the others keep their order,
\* and the handler goes on to unlink the file of the removed track; when its
\* unlink has returned, the file is gone and the request answers ok.  When the
\* playlist holds no track of the id, the request answers 404 and the
\* playlist and the files are as before.
C30_RemoveById ==
  /\ [][\A r \in Reqs :
          RemoveRuns(r)
          => LET rec == ArrivedRec(r)
                 old == OldItems(rec.ctx)
                 new == ctxs'[rec.ctx].playlist
                 id == rec.arg[1]
             IN IF id \in ItemIds(old)
                THEN /\ \E i \in DOMAIN old :
                          /\ old[i].id = id
                          /\ Len(new) = Len(old) - 1
                          /\ \A j \in DOMAIN new :
                               new[j] = IF j < i THEN old[j] ELSE old[j + 1]
                          /\ rec.unlinking = {old[i].filepath}
                     /\ id \notin ItemIds(new)
                     /\ rec.pc = "unlink"
                ELSE /\ rec.pc = "done" /\ rec.status = 404
                     /\ new = old
                     /\ files' = files]_vars
  /\ [][\A r \in Reqs :
          (req[r].route = "remove" /\ req[r].pc = "unlink" /\ req'[r].pc # "unlink")
          => /\ \A f \in req[r].unlinking : f \notin files'
             /\ \E m \in sent' : m.slot = r /\ m.status = 200]_vars

\* the first of two tracks has been removed: the request has answered ok, its
\* file is gone and the second track is what the playlist holds
C30_Witness ==
  \E m \in sent :
    /\ m.route = "remove" /\ m.status = 200 /\ m.arg = <<1>>
    /\ m.unlinking # {} /\ m.unlinking \cap files = {}
    /\ Len(ctxs[m.ctx].playlist) = 1
    /\ ctxs[m.ctx].playlist[1].id = 2

\* C31: the cancel endpoint only records the token.  In a step that gives a
\* token a new entry of the canceled set, the set becomes its unexpired
\* entries plus that token with the canceled-token TTL, and no playlist,
\* progress entry, session, download token or file changes and every request
\* being handled, a running job included, is where it was.
C31_CancelOnlyRecords ==
  [][(\E t \in DOMAIN canceledAddTokens' :
        t \notin DOMAIN canceledAddTokens
        \/ canceledAddTokens'[t] # canceledAddTokens[t])
     => (/\ \E t \in Tokens :
              canceledAddTokens' =
                MapSet([k \in {x \in DOMAIN canceledAddTokens :
                                 canceledAddTokens[x] > now}
                          |-> canceledAddTokens[k]],
                       t, now + CANCELED_TOKEN_TTL)
         /\ UNCHANGED <<ctxs, addProgressMap, sessVars, fsVars,
                        downloadTokenIndex, nextId>>
         /\ \A r \in Reqs :
              [req'[r] EXCEPT !.cancelSeen = req[r].cancelSeen] = req[r])]_vars

\* a cancel has been recorded while the job of an add with that token runs
\* and the progress table holds the token's entry
C31_Witness ==
  /\ "t1" \in DOMAIN canceledAddTokens
  /\ "t1" \in DOMAIN addProgressMap
  /\ \E r \in Reqs : /\ req[r].route = "add" /\ req[r].pc = "running"
                      /\ req[r].token = "t1" /\ req[r].cancelSeen

\* the tracks listed, each with its place: <<context, index>>
Listed == {x \in (DOMAIN ctxs) \X (1..MaxReq) : x[2] \in DOMAIN ctxs[x[1]].playlist}

\* C32: track files are exclusively owned: no two tracks, of one playlist or
\* of two, have the same filepath.
C32_TrackFilesExclusive ==
  \A x, y \in Listed :
    x # y => ctxs[x[1]].playlist[x[2]].filepath # ctxs[y[1]].playlist[y[2]].filepath

\* C34: an add that ends canceled or failed unlinks no file that is the
\* filepath of a track listed in a playlist.
C34_FailedAddSparesListedFiles ==
  [][\A r \in Reqs :
       (req[r].route = "add" /\ req[r].pc = "unlink" /\ req'[r].pc # "unlink")
       => \A f \in req[r].unlinking : \A tr \in AllTracks : tr.filepath # f]_vars

\* C33: download tokens are owned by a live session: every entry of the
\* global index names a session whose context is live and holds the token in
\* its token set, and every token of a live context's token set is in the
\* index under that context's identifier.
C33_TokensOwnedByLiveSession ==
  /\ \A t \in DOMAIN downloadTokenIndex :
       /\ downloadTokenIndex[t].sessionId \in DOMAIN sessionContexts
       /\ t \in ctxs[sessionContexts[downloadTokenIndex[t].sessionId]].downloadTokens
  /\ \A s \in DOMAIN sessionContexts :
       \A t \in ctxs[sessionContexts[s]].downloadTokens :
         /\ t \in DOMAIN downloadTokenIndex
         /\ downloadTokenIndex[t].sessionId = s

\* C35: a failed session creation is not sticky: the creation map holds an
\* identifier only while its creation is in progress.
C35_CreationMapOnlyInProgress ==
  \A s \in DOMAIN sessionCreationPromises :
    creations[sessionCreationPromises[s]].state = "pending"

\* C36: every context present in the session map has its track, scratch and
\* downloads directories on disk.
C36_LiveContextsHaveDirectories ==
  \A s \in DOMAIN sessionContexts : s \in dirs

\* C37: a poll never returns {progress: 100, done: true} for a token whose
\* add request ends canceled or with an error: an add that answers canceled
\* or with an error has had no such poll of its token while it was handled.
C37_DoneAt100OnlyForRegistered ==
  [][\A m \in NewlySent :
       (m.route = "add" /\ (m.canceled \/ m.status >= 400)) => ~m.polledDone]_vars

\* C38: publishing never overwrites: when the rename of moveIntoDownloads
\* settles, no file had the destination's name, so no call replaces a file
\* already published and two calls never return one path.
C38_PublishNeverOverwrites ==
  [][\A r \in Reqs :
       (req[r].route = "convert" /\ req[r].pc = "rename" /\ req'[r].pc = "publish")
       => req'[r].file \notin files]_vars

\* C39: sliding idle window: every request, on any route, that is resolved
\* to an identifier with a live context refreshes the last-access time of
\* that context.
C39_EveryRequestRefreshes ==
  [][\A r \in Reqs :
       (Arrives(r) /\ ArrivedRec(r).sid \in DOMAIN sessionContexts)
       => ctxs'[sessionContexts[ArrivedRec(r).sid]].lastAccess = now]_vars
====
